---------------------------- MODULE Spec2Model ----------------------------
(***************************************************************************)
(* PixelPipe: the effect engine of src/image_to_ansi.py.                   *)
(*                                                                         *)
(* A Python str is a sequence of one-character strings; the escape         *)
(* character \x1b is the element "ESC" and the line feed is "NL".          *)
(* A Python float is a fixed-point number: the integer n stands for        *)
(* n / SC.  int(x) truncates toward zero, as in Python.                    *)
(***************************************************************************)
EXTENDS Integers, Sequences, FiniteSets, TLC

ESC == "ESC"
NL == "NL"

(* ---------------------------- bounds ----------------------------------- *)
\* number of pieces an input grid is assembled from
MaxPieces == 2

(* ---------------------------- state ------------------------------------ *)
\* one call of generate_simple_effect(ansi_art, effect_type)
VARIABLES
    ansi_art,      \* argument: the input grid
    effect_type,   \* argument: the effect selector
    pc,            \* "call", "loop", "done" or "raised"
    lines,         \* ansi_art.split('\n')
    y,             \* index of the next row of the for loop
    new_lines,     \* the output rows so far
    row_chars,     \* per processed row, its tokens (chars)
    row_out,       \* per processed row, the outcome of each token
    in_glitch_zone, \* per token of the last processed row: in a glitch zone
    result,        \* the returned string
    exc,           \* the exception that left the call, or "none"
    run,           \* 1 in the first call on the arguments, 2 in a repeated one
    first_result   \* the string the first call returned

\* one call of image_to_ansi(image_path, max_width, brightness); its loop
\* index is y and the grid it returns is stored in ansi_art
VARIABLES
    img,           \* Image.open(image_path): its size and what it shows
    max_width,     \* argument
    brightness,    \* argument, a float
    new_width,     \* local
    new_height,    \* local
    pixels,        \* img.resize(...).convert('RGB'), pixels[y + 1][x + 1]
    raster         \* the list ansi_art of image_to_ansi

rasterVars == <<img, max_width, brightness, new_width, new_height, pixels, raster>>

\* one call of a validator of utils/validation.py
VARIABLES
    validator,     \* the function called
    argument,      \* the value it is called with
    outcome        \* what the call returned or raised

validateVars == <<validator, argument, outcome>>

\* the request threads of the server inside download_and_save_image
VARIABLES
    upload_folder, \* the files of the upload folder: name and content
    clock,         \* int(time.time())
    dl             \* per thread: its position and its locals

downloadVars == <<upload_folder, clock, dl>>

\* the zone loop at the head of apply_glitch_effect(chars, row)
VARIABLES
    zone_len,      \* len(chars)
    zone_total,    \* num_zones: random.randint(1, 3), 0 before it is drawn
    zone_list      \* glitch_zones: the list of zones

zoneVars == <<zone_len, zone_total, zone_list>>

\* one request to /convert/<filename> or to /update_ansi
VARIABLES
    request,       \* the route, the file it names and the query parameters
    validated,     \* the locals brightness, resolution / max_width and effect
    reply,         \* the status and the body returned, status 0 before that
    converted,     \* the files of the folder converted/
    invoked        \* the conversion functions called so far, in order

serverVars == <<request, validated, reply, converted, invoked>>

\* the variables generate_simple_effect leaves alone
besideEffect == <<rasterVars, validateVars, downloadVars, zoneVars, serverVars>>

\* the variables image_to_ansi leaves alone, its callee's locals aside
besideRaster == <<validateVars, downloadVars, zoneVars, serverVars>>

vars == <<ansi_art, effect_type, pc, lines, y, new_lines, row_chars, row_out,
          in_glitch_zone, result, exc, run, first_result, rasterVars,
          validateVars, downloadVars, zoneVars, serverVars>>

(* ------------------------- str primitives ------------------------------ *)
Digits == <<"0", "1", "2", "3", "4", "5", "6", "7", "8", "9">>

IsDigit(c) == \E d \in 1..10 : Digits[d] = c

DigitVal(c) == (CHOOSE d \in 1..10 : Digits[d] = c) - 1

\* s[i:j] with 0-based, already normalised indices (Python slice)
Slice(s, i, j) ==
    IF j <= i THEN <<>> ELSE SubSeq(s, i + 1, IF j > Len(s) THEN Len(s) ELSE j)

\* s.find(c, start): 0-based index of the first c at or after start, else -1
RECURSIVE Find(_, _, _)
Find(s, c, start) ==
    IF start >= Len(s) THEN -1
    ELSE IF s[start + 1] = c THEN start
    ELSE Find(s, c, start + 1)

\* s.startswith(p)
StartsWith(s, p) == Len(s) >= Len(p) /\ SubSeq(s, 1, Len(p)) = p

\* s.split(sep) for a one-character separator: always at least one field
\* SplitFrom gives the fields of s from the 1-based position i on
RECURSIVE SplitFrom(_, _, _)
SplitFrom(s, sep, i) ==
    LET seps == {k \in i..Len(s) : s[k] = sep}
    IN  IF seps = {} THEN <<SubSeq(s, i, Len(s))>>
        ELSE LET k == CHOOSE k \in seps : \A j \in seps : k <= j
             IN  <<SubSeq(s, i, k - 1)>> \o SplitFrom(s, sep, k + 1)

\* mutant: empty fields are dropped, as s.split() without a separator does
SplitSkipsEmpty(s, sep) ==
    SelectSeq(SplitFrom(s, sep, 1), LAMBDA field : field # <<>>)

Split(s, sep) == SplitFrom(s, sep, 1)

\* ''.join(parts)
RECURSIVE JoinEmpty(_)
JoinEmpty(parts) ==
    IF parts = <<>> THEN <<>> ELSE Head(parts) \o JoinEmpty(Tail(parts))

\* '\n'.join(parts)
RECURSIVE JoinNLMissingSep(_)
JoinNLMissingSep(parts) ==
    IF parts = <<>> THEN <<>> ELSE Head(parts) \o JoinNLMissingSep(Tail(parts))

RECURSIVE JoinNL(_)
JoinNL(parts) ==
    IF parts = <<>> THEN <<>>
    ELSE IF Len(parts) = 1 THEN Head(parts)
    ELSE Head(parts) \o <<NL>> \o JoinNL(Tail(parts))

\* str(n) as an f-string writes it: decimal digits, '-' for a negative value
RECURSIVE NatToStr(_)
NatToStr(n) ==
    IF n < 10 THEN <<Digits[n + 1]>>
    ELSE Append(NatToStr(n \div 10), Digits[(n % 10) + 1])

IntToStr(n) == IF n < 0 THEN <<"-">> \o NatToStr(-n) ELSE NatToStr(n)

(* ------------------------- int() on a str ------------------------------ *)
\* s.strip() for the blank character
RECURSIVE LStrip(_)
LStrip(s) == IF s # <<>> /\ Head(s) = " " THEN LStrip(Tail(s)) ELSE s

RECURSIVE RStrip(_)
RStrip(s) ==
    IF s # <<>> /\ s[Len(s)] = " " THEN RStrip(SubSeq(s, 1, Len(s) - 1)) ELSE s

RECURSIVE DigitsToNat(_)
DigitsToNat(s) ==
    IF s = <<>> THEN 0
    ELSE 10 * DigitsToNat(SubSeq(s, 1, Len(s) - 1)) + DigitVal(s[Len(s)])

AllDigits(s) == s # <<>> /\ \A k \in 1..Len(s) : IsDigit(s[k])

\* int(s): blanks stripped, one optional sign, then at least one digit;
\* anything else raises ValueError
IntBody(s) == IF s # <<>> /\ Head(s) \in {"-", "+"} THEN Tail(s) ELSE s

IntOk(s) == AllDigits(IntBody(RStrip(LStrip(s))))

IntVal(s) ==
    LET t == RStrip(LStrip(s))
    IN  IF t # <<>> /\ Head(t) = "-" THEN -DigitsToNat(IntBody(t))
        ELSE DigitsToNat(IntBody(t))

(* --------------------------- tokenizer --------------------------------- *)
\* mutant: the slice that cuts a directive stops before its 'm'
RECURSIVE TokenizeDropM(_, _)
TokenizeDropM(line, i) ==
    IF i >= Len(line) THEN <<>>
    ELSE IF Slice(line, i, i + 2) = <<ESC, "[">>
         THEN LET end == Find(line, "m", i)
              IN  IF end # -1
                  THEN <<Slice(line, i, end)>> \o TokenizeDropM(line, end + 1)
                  ELSE <<<<line[i + 1]>>>> \o TokenizeDropM(line, i + 1)
         ELSE <<<<line[i + 1]>>>> \o TokenizeDropM(line, i + 1)

\* the while loop of generate_simple_effect, from 0-based position i
RECURSIVE Tokenize(_, _)
Tokenize(line, i) ==
    IF i >= Len(line) THEN <<>>
    ELSE IF Slice(line, i, i + 2) = <<ESC, "[">>
         THEN LET end == Find(line, "m", i)
              IN  IF end # -1
                  THEN <<Slice(line, i, end + 1)>> \o Tokenize(line, end + 1)
                  ELSE <<<<line[i + 1]>>>> \o Tokenize(line, i + 1)
         ELSE <<<<line[i + 1]>>>> \o Tokenize(line, i + 1)

(* ----------------------- directive parsing ----------------------------- *)
\* '\x1b[38;2;'
PREFIX == <<ESC, "[", "3", "8", ";", "2", ";">>

\* rgb_part = char[7:-1]; if 'm' in rgb_part: rgb_part = rgb_part.split('m')[0]
RgbPart(char) ==
    LET part == Slice(char, 7, Len(char) - 1)
    IN  IF Find(part, "m", 0) # -1 THEN Split(part, "m")[1] ELSE part

RgbFields(char) == Split(RgbPart(char), ";")

\* the exception r, g, b = map(int, rgb_part.split(';')) raises, or "none":
\* int() of a field that is no integer and an unpacking of other than three
\* values both raise ValueError
ParseError(char) ==
    LET f == RgbFields(char)
    IN  IF Len(f) # 3 \/ \E k \in 1..Len(f) : ~IntOk(f[k])
        THEN "ValueError" ELSE "none"

\* the values r, g, b of a directive that parses
ParseRGB(char) ==
    LET f == RgbFields(char)
    IN  [r |-> IntVal(f[1]), g |-> IntVal(f[2]), b |-> IntVal(f[3])]

\* mutant: the handler is except IndexError
CaughtOnlyIndexError == {"IndexError"}

\* except (ValueError, IndexError)
CaughtErrors == {"ValueError", "IndexError"}

\* mutant: the slice starts at the 'm' instead of after it
CharPartFromM(char) == Slice(char, Find(char, "m", 0), Len(char))

\* char_part = char[char.find('m')+1:]
CharPart(char) == Slice(char, Find(char, "m", 0) + 1, Len(char))

\* f'\x1b[38;2;{r};{g};{b}m{char_part}'
Emit(r, g, b, char) ==
    PREFIX \o IntToStr(r) \o <<";">> \o IntToStr(g) \o <<";">> \o IntToStr(b)
           \o <<"m">> \o CharPart(char)

\* The outcome of one iteration of a transform's token loop: the token
\* appended to result, the exception that escapes (or "none"), and whether
\* the token was rewritten.
\* mutant: the else branch forgets result.append(char)
KeptDropped(char) == [tok |-> <<>>, exc |-> "none", rew |-> FALSE]

\* result.append(char)
Kept(char) == [tok |-> char, exc |-> "none", rew |-> FALSE]

Rewrite(char, r, g, b) == [tok |-> Emit(r, g, b, char), exc |-> "none", rew |-> TRUE]

Failed(char) ==
    IF ParseError(char) \in CaughtErrors THEN Kept(char)
    ELSE [tok |-> char, exc |-> ParseError(char), rew |-> FALSE]

(* ------------------------ float arithmetic ----------------------------- *)
\* fixed-point scale: the integer n stands for the float n / SC
SC == 10 * 100

\* math.pi
PI == 3142

Abs(a) == IF a < 0 THEN -a ELSE a
Min2(a, b) == IF a < b THEN a ELSE b
Max2(a, b) == IF a > b THEN a ELSE b
Min3(a, b, c) == Min2(a, Min2(b, c))
Max3(a, b, c) == Max2(a, Max2(b, c))

\* n / d rounded to the nearest grid point, d > 0
RoundDiv(n, d) == (n + d \div 2) \div d

\* int(n / d): truncation toward zero, d > 0
TruncDiv(n, d) == IF n >= 0 THEN n \div d ELSE -((-n) \div d)

\* a * b and a / b on floats
FMul(a, b) == RoundDiv(a * b, SC)
FDiv(a, b) == IF b < 0 THEN RoundDiv((-a) * SC, -b) ELSE RoundDiv(a * SC, b)

\* the float of an int, and int() of a float
ToFloat(n) == n * SC
ToInt(x) == TruncDiv(x, SC)

\* row / total_rows
RowFrac(row, total_rows) == RoundDiv(row * SC, total_rows)

\* math.sin(x) for small x: x - x^3/6 + x^5/120
Sin(x) ==
    LET x2 == FMul(x, x)
        x3 == FMul(x2, x)
        x5 == FMul(x3, x2)
    IN  x - RoundDiv(x3, 6) + RoundDiv(x5, 120)

\* (r + g + b) / 3
Brightness(c) == RoundDiv((c.r + c.g + c.b) * SC, 3)

(* --------------------------- rainbow ----------------------------------- *)
Clamp255(x) == Max2(0, Min2(255, x))

\* rgb_to_hsv: h in radians, s and v as floats
rgb_to_hsv(r0, g0, b0) ==
    LET r == RoundDiv(r0 * SC, 255)
        g == RoundDiv(g0 * SC, 255)
        b == RoundDiv(b0 * SC, 255)
        max_val == Max3(r, g, b)
        min_val == Min3(r, g, b)
        diff == max_val - min_val
        deg == IF diff = 0 THEN 0
               ELSE IF max_val = r
                    THEN (60 * FDiv(g - b, diff) + 360 * SC) % (360 * SC)
               ELSE IF max_val = g
                    THEN (60 * FDiv(b - r, diff) + 120 * SC) % (360 * SC)
               ELSE (60 * FDiv(r - g, diff) + 240 * SC) % (360 * SC)
    IN  [h |-> RoundDiv(FMul(deg, PI), 180),
         s |-> IF max_val = 0 THEN 0 ELSE FDiv(diff, max_val),
         v |-> max_val]

\* hsv_to_rgb: three ints, each clamped to 0..255
hsv_to_rgb(h0, s, v) ==
    LET h == FDiv(h0 * 180, PI)
        c == FMul(v, s)
        x == FMul(c, SC - Abs((RoundDiv(h, 60) % (2 * SC)) - SC))
        m == v - c
        rgb == IF 0 <= h /\ h < 60 * SC THEN <<c, x, 0>>
               ELSE IF 60 * SC <= h /\ h < 120 * SC THEN <<x, c, 0>>
               ELSE IF 120 * SC <= h /\ h < 180 * SC THEN <<0, c, x>>
               ELSE IF 180 * SC <= h /\ h < 240 * SC THEN <<0, x, c>>
               ELSE IF 240 * SC <= h /\ h < 300 * SC THEN <<x, 0, c>>
               ELSE <<c, 0, x>>
    IN  [r |-> Clamp255(ToInt((rgb[1] + m) * 255)),
         g |-> Clamp255(ToInt((rgb[2] + m) * 255)),
         b |-> Clamp255(ToInt((rgb[3] + m) * 255))]

\* wave_offset = (row / total_rows) * 2 * math.pi
WaveOffset(row, total_rows) == FMul(RowFrac(row, total_rows) * 2, PI)

\* one token of apply_rainbow_wave; i is the token's 0-based index
RainbowToken(char, i, row, total_rows) ==
    IF ~StartsWith(char, PREFIX) THEN Kept(char)
    ELSE IF ParseError(char) # "none" THEN Failed(char)
    ELSE LET c == ParseRGB(char)
             hsv == rgb_to_hsv(c.r, c.g, c.b)
             h == (hsv.h + WaveOffset(row, total_rows) + i * 100) % (2 * PI)
             n == hsv_to_rgb(h, hsv.s, hsv.v)
         IN  Rewrite(char, n.r, n.g, n.b)

\* mutant: the wave keeps a phase that advances from one call to the next
apply_rainbow_wave_phase(chars, row, total_rows) ==
    [k \in 1..Len(chars) |-> RainbowToken(chars[k], k - 1 + 10 * run, row, total_rows)]

apply_rainbow_wave(chars, row, total_rows) ==
    [k \in 1..Len(chars) |-> RainbowToken(chars[k], k - 1, row, total_rows)]

(* --------------------------- matrix ------------------------------------ *)
\* intensity = max(0.3, 1.0 - (row / total_rows))
MatrixIntensity(row, total_rows) == Max2(300, SC - RowFrac(row, total_rows))

\* mutant: the rewritten directive keeps the blue channel of the input
MatrixTokenKeepsBlue(char, row, total_rows, d) ==
    IF ~StartsWith(char, PREFIX) THEN Kept(char)
    ELSE IF ParseError(char) # "none" THEN Failed(char)
    ELSE LET c == ParseRGB(char)
             green0 == ToInt(FMul(FMul(Brightness(c),
                                       MatrixIntensity(row, total_rows)), d.u))
             green1 == Min2(255, Max2(0, green0))
             green_val == IF d.highlight THEN 255 ELSE green1
         IN  Rewrite(char, 0, green_val, c.b)

\* one token of apply_matrix_effect; d.u is random.uniform(0.7, 1.3) and
\* d.highlight is random.random() < 0.05
MatrixToken(char, row, total_rows, d) ==
    IF ~StartsWith(char, PREFIX) THEN Kept(char)
    ELSE IF ParseError(char) # "none" THEN Failed(char)
    ELSE LET c == ParseRGB(char)
             green0 == ToInt(FMul(FMul(Brightness(c),
                                       MatrixIntensity(row, total_rows)), d.u))
             green1 == Min2(255, Max2(0, green0))
             green_val == IF d.highlight THEN 255 ELSE green1
         IN  Rewrite(char, 0, green_val, 0)

apply_matrix_effect(chars, row, total_rows, rnd) ==
    [k \in 1..Len(chars) |-> MatrixToken(chars[k], row, total_rows, rnd[k])]

(* ---------------------------- fire ------------------------------------- *)
\* mutant: the heat grows with the row index, hottest at the bottom
FireHeatFromBottom(row, total_rows) == RowFrac(row, total_rows)

\* heat = 1.0 - (row / total_rows)
FireHeat(row, total_rows) == SC - RowFrac(row, total_rows)

\* the tier colour before the flicker
FireTier(heat, br) ==
    IF heat > 700
    THEN [r |-> Min2(255, ToInt(FMul(br, 1200))),
          g |-> Min2(255, ToInt(FMul(br, 1100))),
          b |-> ToInt(FMul(br, 300))]
    ELSE IF heat > 400
    THEN [r |-> Min2(255, ToInt(FMul(br, 1300))),
          g |-> ToInt(FMul(br, 600)),
          b |-> ToInt(FMul(br, 100))]
    ELSE [r |-> ToInt(FMul(br, 800)),
          g |-> ToInt(FMul(br, 200)),
          b |-> 0]

\* one token of apply_fire_effect; d.flicker is random.uniform(0.8, 1.2)
FireToken(char, row, total_rows, d) ==
    IF ~StartsWith(char, PREFIX) THEN Kept(char)
    ELSE IF ParseError(char) # "none" THEN Failed(char)
    ELSE LET c == ParseRGB(char)
             t == FireTier(FireHeat(row, total_rows), Brightness(c))
         IN  Rewrite(char,
                     Min2(255, ToInt(t.r * d.flicker)),
                     Min2(255, ToInt(t.g * d.flicker)),
                     Min2(255, ToInt(t.b * d.flicker)))

apply_fire_effect(chars, row, total_rows, rnd) ==
    [k \in 1..Len(chars) |-> FireToken(chars[k], row, total_rows, rnd[k])]

(* ---------------------------- neon ------------------------------------- *)
\* pulse = 0.8 + 0.4 * math.sin(row * 0.1)
NeonPulse(row) == 800 + FMul(400, Sin(row * 100))

\* the channel weights of neon_palettes[row % len(neon_palettes)]
NeonPalette(row) ==
    <<[r |-> 100, g |-> 200, b |-> 255],
      [r |-> 255, g |-> 50, b |-> 150],
      [r |-> 50, g |-> 255, b |-> 100],
      [r |-> 200, g |-> 50, b |-> 255],
      [r |-> 255, g |-> 150, b |-> 50]>>[(row % 5) + 1]

\* bleed_colors
BleedColors ==
    <<[r |-> 0, g |-> 255, b |-> 255],
      [r |-> 255, g |-> 0, b |-> 255],
      [r |-> 255, g |-> 255, b |-> 0]>>

\* min_neon_brightness
MinNeonBrightness == 80

\* int(brightness * weight * pulse)
NeonChannel(bn, weight, pulse) == ToInt(FMul(bn * weight, pulse))

\* the glow boost: d.glow is 0 when random.random() >= 0.08, else the
\* value of random.uniform(1.2, 1.8)
NeonGlow(c, d) ==
    IF d.glow = 0 THEN c
    ELSE [r |-> Min2(255, ToInt(c.r * d.glow)),
          g |-> Min2(255, ToInt(c.g * d.glow)),
          b |-> Min2(255, ToInt(c.b * d.glow))]

\* the colour bleed: d.bleed is 0 when random.random() >= 0.05, else the
\* index random.choice picks in bleed_colors
NeonBleed(c, d) ==
    IF d.bleed = 0 THEN c
    ELSE [r |-> Min2(255, (c.r + BleedColors[d.bleed].r) \div 2),
          g |-> Min2(255, (c.g + BleedColors[d.bleed].g) \div 2),
          b |-> Min2(255, (c.b + BleedColors[d.bleed].b) \div 2)]

\* the minimum brightness boost
NeonFloor(c) ==
    IF c.r + c.g + c.b < MinNeonBrightness * 3
    THEN LET boost_factor ==
                 RoundDiv(MinNeonBrightness * 3 * SC, Max2(1, c.r + c.g + c.b))
         IN  [r |-> Min2(255, ToInt(c.r * boost_factor)),
              g |-> Min2(255, ToInt(c.g * boost_factor)),
              b |-> Min2(255, ToInt(c.b * boost_factor))]
    ELSE c

\* one token of apply_neon_effect
NeonToken(char, row, d) ==
    IF ~StartsWith(char, PREFIX) THEN Kept(char)
    ELSE IF ParseError(char) # "none" THEN Failed(char)
    ELSE LET c == ParseRGB(char)
             bn == RoundDiv(Brightness(c), 255)
             w == NeonPalette(row)
             pulse == NeonPulse(row)
             c0 == [r |-> NeonChannel(bn, w.r, pulse),
                    g |-> NeonChannel(bn, w.g, pulse),
                    b |-> NeonChannel(bn, w.b, pulse)]
             c3 == NeonFloor(NeonBleed(NeonGlow(c0, d), d))
         IN  Rewrite(char, Max2(0, Min2(255, c3.r)),
                           Max2(0, Min2(255, c3.g)),
                           Max2(0, Min2(255, c3.b)))

apply_neon_effect(chars, row, rnd) ==
    [k \in 1..Len(chars) |-> NeonToken(chars[k], row, rnd[k])]

(* ---------------------------- glitch ----------------------------------- *)
GlitchTypes == {"color_shift", "invert", "corrupt", "noise"}

\* corruption_colors
CorruptionColors ==
    <<[r |-> 255, g |-> 0, b |-> 255],
      [r |-> 0, g |-> 255, b |-> 255],
      [r |-> 255, g |-> 255, b |-> 0],
      [r |-> 255, g |-> 0, b |-> 0],
      [r |-> 0, g |-> 255, b |-> 0]>>

\* mutant: the end of the zone is not clamped to the row
MakeZoneUnclamped(n, zone_start, zone_size, glitch_type, intensity) ==
    [start |-> zone_start, end |-> zone_start + zone_size,
     type |-> glitch_type, intensity |-> intensity]

\* the dict appended to glitch_zones for one drawn zone
MakeZone(n, zone_start, zone_size, glitch_type, intensity) ==
    [start |-> zone_start, end |-> Min2(n, zone_start + zone_size),
     type |-> glitch_type, intensity |-> intensity]

\* indices of the zones that hold the 0-based token index i
ZonesAt(zones, i) ==
    {z \in 1..Len(zones) : zones[z].start <= i /\ i < zones[z].end}

\* The zone loop over glitch_zones for token i: in_glitch_zone, glitch_type
\* and glitch_intensity keep their defaults unless a zone holds i, and the
\* loop breaks at the first zone that does.
ZoneLookup(zones, i) ==
    IF ZonesAt(zones, i) = {}
    THEN [in_glitch_zone |-> FALSE, type |-> "normal", intensity |-> 1000]
    ELSE LET z == zones[CHOOSE z \in ZonesAt(zones, i) :
                            \A w \in ZonesAt(zones, i) : z <= w]
         IN  [in_glitch_zone |-> TRUE, type |-> z.type, intensity |-> z.intensity]

\* the lookup of every token of a row of n tokens
RowLookups(zones, n) == [k \in 1..n |-> ZoneLookup(zones, k - 1)]

\* shift = int(100 * glitch_intensity)
GlitchShift(look) == ToInt(100 * look.intensity)

\* mutant: inversion against 256
InvertedFrom256(v) == 256 - v

\* 255 - r
Inverted(v) == 255 - v

\* the new colour of a directive inside a zone; d holds the draws
\* random.randint(-shift, shift) (three), random.choice(corruption_colors)
\* and random.randint(0, 100)
GlitchColor(c, look, d) ==
    IF look.type = "color_shift"
    THEN [r |-> Min2(255, Max2(0, c.r + d.dr)),
          g |-> Min2(255, Max2(0, c.g + d.dg)),
          b |-> Min2(255, Max2(0, c.b + d.db))]
    ELSE IF look.type = "invert"
    THEN [r |-> Inverted(c.r), g |-> Inverted(c.g), b |-> Inverted(c.b)]
    ELSE IF look.type = "corrupt"
    THEN CorruptionColors[d.corrupt]
    ELSE IF look.type = "noise"
    THEN [r |-> Min2(255, Max2(0, ToInt(c.r * 300) + d.noise)),
          g |-> Min2(255, Max2(0, ToInt(c.g * 300) + d.noise)),
          b |-> Min2(255, Max2(0, ToInt(c.b * 300) + d.noise))]
    ELSE c

\* mutant: every colour directive is recoloured, in a zone or not
GlitchTokenAnyZone(char, look, d) ==
    IF ~StartsWith(char, PREFIX) THEN Kept(char)
    ELSE IF ParseError(char) # "none" THEN Failed(char)
    ELSE LET n == GlitchColor(ParseRGB(char), look, d)
         IN  Rewrite(char, n.r, n.g, n.b)

\* one token of apply_glitch_effect; look is the token's zone lookup
GlitchToken(char, look, d) ==
    IF ~(StartsWith(char, PREFIX) /\ look.in_glitch_zone) THEN Kept(char)
    ELSE IF ParseError(char) # "none" THEN Failed(char)
    ELSE LET n == GlitchColor(ParseRGB(char), look, d)
         IN  Rewrite(char, n.r, n.g, n.b)

apply_glitch_effect(chars, looks, rnd) ==
    [k \in 1..Len(chars) |-> GlitchToken(chars[k], looks[k], rnd[k])]

(* ------------------------- random draws -------------------------------- *)
\* The outcomes of the random module are sampled at the ends (and the middle)
\* of each range.
NoDraw == [none |-> TRUE]

\* a directive that reaches the random calls of a transform's try block
Parses(char) == StartsWith(char, PREFIX) /\ ParseError(char) = "none"

\* random.uniform(0.7, 1.3), random.random() < 0.05
MatrixDraws == [u : {700, 1000, 1300}, highlight : BOOLEAN]

\* random.uniform(0.8, 1.2)
FireDraws == [flicker : {800, 1000, 1200}]

\* random.random() < 0.08 with random.uniform(1.2, 1.8);
\* random.random() < 0.05 with random.choice(bleed_colors)
NeonDraws == [glow : {0, 1200, 1800}, bleed : 0..3]

\* random.randint(5, 15) with random.uniform(0.5, 1.0): both ends of both
ZoneSamples == {[size |-> 5, intensity |-> 500], [size |-> 15, intensity |-> 1000]}

\* random.randint(0, max(0, len(chars) - 10)), random.choice([...]) and the
\* size and intensity of one zone
ZoneDraws(n) ==
    {MakeZone(n, zs, sm.size, ty, sm.intensity) :
        zs \in {0, Max2(0, n - 10)}, sm \in ZoneSamples, ty \in GlitchTypes}

\* three draws of random.randint(-shift, shift), as multiples of shift
ShiftSamples == {<<-1, -1, -1>>, <<1, 1, 1>>, <<-1, 1, 0>>}

\* the draws of one directive inside a zone
GlitchDraws(look) ==
    IF look.type = "color_shift"
    THEN {[dr |-> m[1] * GlitchShift(look), dg |-> m[2] * GlitchShift(look),
           db |-> m[3] * GlitchShift(look)] : m \in ShiftSamples}
    ELSE IF look.type = "corrupt" THEN [corrupt : 1..5]
    ELSE IF look.type = "noise" THEN [noise : {0, 100}]
    ELSE {NoDraw}

\* all ways to pick one element from each set of a sequence of sets
RECURSIVE Picks(_)
Picks(sets) ==
    IF sets = <<>> THEN {<<>>}
    ELSE {<<x>> \o rest : x \in Head(sets), rest \in Picks(Tail(sets))}

\* per-token draws of a row: tokens that draw nothing get NoDraw
RowDraws(chars, draws) ==
    Picks([k \in 1..Len(chars) |-> IF Parses(chars[k]) THEN draws ELSE {NoDraw}])

GlitchRowDraws(chars, looks) ==
    Picks([k \in 1..Len(chars) |->
              IF Parses(chars[k]) /\ looks[k].in_glitch_zone
              THEN GlitchDraws(looks[k]) ELSE {NoDraw}])

\* glitch_zones after the zone loop: num_zones = random.randint(1, 3) zones
ZoneLists(n) ==
    UNION {[1..num_zones -> ZoneDraws(n)] : num_zones \in 1..3}

(* --------------------------- inputs ------------------------------------ *)
\* a colour directive with the given payload text
Directive(payload) == PREFIX \o payload \o <<"m">>

ColorDirective(r, g, b) ==
    Directive(IntToStr(r) \o <<";">> \o IntToStr(g) \o <<";">> \o IntToStr(b))

\* '\x1b[0m'
RESET == <<ESC, "[", "0", "m">>

\* The fragments input grids are assembled from.  CellPieces: cells and
\* directives whose payload is three integers, in and out of 0..255.
CellPieces ==
    { ColorDirective(255, 90, 30) \o <<"#">>,
      ColorDirective(0, 0, 0) \o <<" ">>,
      ColorDirective(300, 0, 0),
      ColorDirective(-5, 0, 0),
      RESET,
      <<NL>> }

\* StrayPieces: malformed directives, stray characters, a run of glyphs
\* longer than the shortest glitch zone, and one signed directive
StrayPieces ==
    { Directive(<<"+", "5", ";", "0", ";", "0">>),
      Directive(<<>>),
      Directive(<<"1", ";", "2">>),
      Directive(<<"1", ";", "2", ";", "3", ";", "4">>),
      Directive(<<"x", ";", "2", ";", "3">>),
      <<ESC, "[">>,
      <<"m">>,
      <<"#", "#", "#", "#", "#", "#">>,
      RESET,
      <<NL>> }

RECURSIVE GridsOver(_, _)
GridsOver(pieces, n) ==
    IF n = 0 THEN {<<>>}
    ELSE GridsOver(pieces, n - 1)
         \cup {g \o p : g \in GridsOver(pieces, n - 1), p \in pieces}

Grids(n) == GridsOver(CellPieces, n) \cup GridsOver(StrayPieces, n)

\* -1..4 are the documented selectors; -2 and 5 are out of range
EffectSelectors == (-2)..5

(* ------------------------- state machine ------------------------------- *)
\* no image is being rasterized
NoImage ==
    [width |-> 0, height |-> 0, uniform |-> TRUE, color |-> [r |-> 0, g |-> 0, b |-> 0]]

RasterIdle ==
    /\ img = NoImage
    /\ max_width = 0
    /\ brightness = 0
    /\ new_width = 0
    /\ new_height = 0
    /\ pixels = <<>>
    /\ raster = <<>>

\* no validator is being called
NoValue == [type |-> "NoneType", s |-> <<>>, n |-> 0]

NoOutcome == [kind |-> "none", num |-> 0, str |-> <<>>, exc |-> "none", msg |-> "none"]

ValidateIdle ==
    /\ validator = "none"
    /\ argument = NoValue
    /\ outcome = NoOutcome

\* no download is running, the upload folder is empty
DownloadIdle ==
    /\ upload_folder = {}
    /\ clock = 0
    /\ dl = <<>>

\* apply_glitch_effect is not in its zone loop
ZonesIdle ==
    /\ zone_len = 0
    /\ zone_total = 0
    /\ zone_list = <<>>

\* no request is being served
NoRequest ==
    [route |-> "none", name |-> <<>>, named |-> FALSE, on_disk |-> FALSE,
     brightness |-> <<>>, resolution |-> <<>>, effect |-> <<>>]

NoResponse == [status |-> 0, text |-> "none", body |-> <<>>]

ServerIdle ==
    /\ request = NoRequest
    /\ validated = [brightness |-> 0, resolution |-> 0, effect |-> 0]
    /\ reply = NoResponse
    /\ converted = {}
    /\ invoked = <<>>

Init ==
    /\ ansi_art \in Grids(MaxPieces)
    /\ effect_type \in EffectSelectors
    /\ pc = "call"
    /\ lines = <<>>
    /\ y = 0
    /\ new_lines = <<>>
    /\ row_chars = <<>>
    /\ row_out = <<>>
    /\ in_glitch_zone = <<>>
    /\ result = <<>>
    /\ exc = "none"
    /\ run = 1
    /\ first_result = <<>>
    /\ RasterIdle
    /\ ValidateIdle
    /\ DownloadIdle
    /\ ZonesIdle /\ ServerIdle

\* lines = ansi_art.split('\n'); new_lines = []
SplitLines ==
    /\ pc = "call"
    /\ lines' = Split(ansi_art, NL)
    /\ pc' = "loop"
    /\ UNCHANGED <<ansi_art, effect_type, y, new_lines, row_chars, row_out,
                   in_glitch_zone, result, exc, run, first_result>>
    /\ UNCHANGED besideEffect

\* the tokens of the row the loop is at
Chars == Tokenize(lines[y + 1], 0)

\* '.join of the tokens a transform returns
JoinTokens(out) == JoinEmpty([k \in 1..Len(out) |-> out[k].tok])

Raising(out) == {k \in 1..Len(out) : out[k].exc # "none"}

\* no token of a row is in a glitch zone
NoZones(chars) == [k \in 1..Len(chars) |-> FALSE]

\* the end of one iteration of the row loop: chars are the row's tokens, out
\* the transform's outcome for each of them, inzone their in_glitch_zone
FinishRow(chars, out, inzone) ==
    /\ row_chars' = Append(row_chars, chars)
    /\ row_out' = Append(row_out, out)
    /\ in_glitch_zone' = inzone
    /\ IF Raising(out) # {}
       THEN /\ pc' = "raised"
            /\ exc' = out[CHOOSE k \in Raising(out) :
                              \A j \in Raising(out) : k <= j].exc
            /\ UNCHANGED <<y, new_lines>>
       ELSE /\ new_lines' = Append(new_lines, JoinTokens(out))
            /\ y' = y + 1
            /\ UNCHANGED <<pc, exc>>
    /\ UNCHANGED <<ansi_art, effect_type, lines, result, run, first_result>>
    /\ UNCHANGED besideEffect

\* mutant: the last elif is a plain else, so unknown selectors run neon
BranchNeonElse(e) ==
    IF e = 0 THEN "rainbow" ELSE IF e = 1 THEN "glitch"
    ELSE IF e = 2 THEN "matrix" ELSE IF e = 3 THEN "fire"
    ELSE IF e >= 4 THEN "neon" ELSE "else"

\* the if / elif chain on effect_type
Branch(e) ==
    IF e = 0 THEN "rainbow" ELSE IF e = 1 THEN "glitch"
    ELSE IF e = 2 THEN "matrix" ELSE IF e = 3 THEN "fire"
    ELSE IF e = 4 THEN "neon" ELSE "else"

AtRow(branch) == pc = "loop" /\ y < Len(lines) /\ Branch(effect_type) = branch

\* mutant: the token index of the wave is not reset at the start of a row,
\* it goes on from the length of the row before
RainbowRowCarries ==
    /\ AtRow("rainbow")
    /\ LET chars == Chars
           carried == IF y = 0 THEN 0 ELSE Len(row_chars[Len(row_chars)])
       IN  FinishRow(chars,
                     [k \in 1..Len(chars) |->
                         RainbowToken(chars[k], k - 1 + carried, y, Len(lines))],
                     NoZones(chars))

RainbowRow ==
    /\ AtRow("rainbow")
    /\ LET chars == Chars
       IN  FinishRow(chars, apply_rainbow_wave(chars, y, Len(lines)), NoZones(chars))

GlitchRow ==
    /\ AtRow("glitch")
    /\ LET chars == Chars
           \* random.random() < 0.15 fills glitch_zones, else it stays []
           glitch_zones == {<<>>} \cup ZoneLists(Len(chars))
       IN  \E looks \in {RowLookups(zones, Len(chars)) : zones \in glitch_zones} :
             \E rnd \in GlitchRowDraws(chars, looks) :
               FinishRow(chars, apply_glitch_effect(chars, looks, rnd),
                         [k \in 1..Len(chars) |-> looks[k].in_glitch_zone])

MatrixRow ==
    /\ AtRow("matrix")
    /\ LET chars == Chars
       IN  \E rnd \in RowDraws(chars, MatrixDraws) :
             FinishRow(chars, apply_matrix_effect(chars, y, Len(lines), rnd),
                       NoZones(chars))

FireRow ==
    /\ AtRow("fire")
    /\ LET chars == Chars
       IN  \E rnd \in RowDraws(chars, FireDraws) :
             FinishRow(chars, apply_fire_effect(chars, y, Len(lines), rnd),
                       NoZones(chars))

NeonRow ==
    /\ AtRow("neon")
    /\ LET chars == Chars
       IN  \E rnd \in RowDraws(chars, NeonDraws) :
             FinishRow(chars, apply_neon_effect(chars, y, rnd), NoZones(chars))

\* else: new_line = ''.join(chars)
FallbackRow ==
    /\ AtRow("else")
    /\ LET chars == Chars
       IN  FinishRow(chars, [k \in 1..Len(chars) |-> Kept(chars[k])], NoZones(chars))

\* return '\n'.join(new_lines)
Return ==
    /\ pc = "loop" /\ y >= Len(lines)
    /\ result' = JoinNL(new_lines)
    /\ pc' = "done"
    /\ UNCHANGED <<ansi_art, effect_type, lines, y, new_lines, row_chars,
                   row_out, in_glitch_zone, exc, run, first_result>>
    /\ UNCHANGED besideEffect

Next ==
    \/ SplitLines
    \/ RainbowRow
    \/ GlitchRow
    \/ MatrixRow
    \/ FireRow
    \/ NeonRow
    \/ FallbackRow
    \/ Return

Spec == Init /\ [][Next]_vars

(* ------------------- the same call made a second time ------------------ *)
\* the caller keeps the returned string and calls again with the same
\* arguments
CallAgain ==
    /\ pc = "done" /\ run = 1
    /\ first_result' = result
    /\ run' = 2
    /\ pc' = "call"
    /\ lines' = <<>>
    /\ y' = 0
    /\ new_lines' = <<>>
    /\ row_chars' = <<>>
    /\ row_out' = <<>>
    /\ in_glitch_zone' = <<>>
    /\ result' = <<>>
    /\ UNCHANGED <<ansi_art, effect_type, exc>>
    /\ UNCHANGED besideEffect

InitRainbow == Init /\ effect_type = 0

NextTwice ==
    \/ SplitLines
    \/ RainbowRow
    \/ Return
    \/ CallAgain

SpecTwice == InitRainbow /\ [][NextTwice]_vars

(* ========================== the rasterizer ============================= *)
\* the glyphs of rgb_to_ansi: ' ' and the block elements U+2591, U+2592,
\* U+2593 and U+2588, each one character
Space == " "
LightShade == "LIGHT_SHADE"
MediumShade == "MEDIUM_SHADE"
DarkShade == "DARK_SHADE"
FullBlock == "FULL_BLOCK"

\* the glyphs from the darkest to the lightest
Glyphs == <<Space, LightShade, MediumShade, DarkShade, FullBlock>>

\* mutant: the average is rounded to the nearest integer
BucketRounded(r, g, b) ==
    LET bright == RoundDiv(r + g + b, 3)
    IN  IF bright < 32 THEN 1
        ELSE IF bright < 96 THEN 2
        ELSE IF bright < 160 THEN 3
        ELSE IF bright < 224 THEN 4
        ELSE 5

\* brightness = (r + g + b) // 3 and the branch of the if / elif chain it takes
Bucket(r, g, b) ==
    LET bright == (r + g + b) \div 3
    IN  IF bright < 32 THEN 1
        ELSE IF bright < 96 THEN 2
        ELSE IF bright < 160 THEN 3
        ELSE IF bright < 224 THEN 4
        ELSE 5

\* f"\x1b[38;2;{r};{g};{b}m{char}"
rgb_to_ansi(r, g, b) == ColorDirective(r, g, b) \o <<Glyphs[Bucket(r, g, b)]>>

\* mutant: the scaled channel wraps around instead of saturating
AdjustWraps(v, factor) == ToInt(v * factor) % 256

\* min(255, int(r * brightness))
Adjust(v, factor) == Min2(255, ToInt(v * factor))

\* the body of the inner loop for one pixel
Cell(p, factor) ==
    rgb_to_ansi(Adjust(p.r, factor), Adjust(p.g, factor), Adjust(p.b, factor))

\* mutant: the row is appended without the reset directive
RowOfNoReset(line) == JoinEmpty(line)

\* ''.join(line) + '\x1b[0m'
RowOf(line) == JoinEmpty(line) \o RESET

\* aspect_ratio = height / width; int(aspect_ratio * new_width * 0.55)
NewHeight(width, height, nw) ==
    ToInt(FMul(FDiv(ToFloat(height), ToFloat(width)) * nw, 550))

(* --------------------------- inputs ------------------------------------ *)
\* widths and heights of source images, and values of max_width
MaxDim == 4

Pixel(r, g, b) == [r |-> r, g |-> g, b |-> b]

White == Pixel(255, 255, 255)
Black == Pixel(0, 0, 0)

\* pixel values a resized image holds: both ends, a colour, and greys and
\* near-greys on both sides of every glyph threshold
PixelSamples ==
    << Black, Pixel(255, 90, 30), Pixel(31, 32, 32), Pixel(32, 32, 32),
       Pixel(95, 96, 96), Pixel(96, 96, 96), Pixel(160, 160, 159),
       Pixel(160, 160, 160), Pixel(223, 224, 224), Pixel(224, 224, 224),
       White >>

\* a source image: its size, the colour of its first pixel, and whether all
\* its pixels have that colour
Images ==
    [width : 1..MaxDim, height : 1..MaxDim, uniform : {TRUE}, color : {White, Black}]
    \cup [width : 1..MaxDim, height : 1..MaxDim, uniform : {FALSE},
          color : {Pixel(255, 90, 30)}]

\* brightness factors: inside 0.1..5.0, and the negative -1.0
BrightnessFactors == {-1000, 100, 500, 1000, 1500, 5000}

\* The images img.resize((w, h)).convert('RGB') can return.  Resampling an
\* image of one colour gives that colour; otherwise the pixel values depend
\* on the source and are sampled here.
Resized(image, w, h) ==
    IF image.uniform
    THEN {[yy \in 1..h |-> [xx \in 1..w |-> image.color]]}
    ELSE {[yy \in 1..h |-> [xx \in 1..w |->
              PixelSamples[((seed + xx + (yy - 1) * w) % Len(PixelSamples)) + 1]]] :
            seed \in 1..Len(PixelSamples)}

(* ------------------------- state machine ------------------------------- *)
\* generate_simple_effect is not running
EffectIdle ==
    /\ effect_type = -1
    /\ lines = <<>>
    /\ new_lines = <<>>
    /\ row_chars = <<>>
    /\ row_out = <<>>
    /\ in_glitch_zone = <<>>
    /\ result = <<>>
    /\ run = 1
    /\ first_result = <<>>

effectLocals == <<effect_type, lines, new_lines, row_chars, row_out,
                  in_glitch_zone, result, run, first_result>>

RasterInit ==
    /\ img \in Images
    /\ max_width \in 1..MaxDim
    /\ brightness \in BrightnessFactors
    /\ pc = "open"
    /\ new_width = 0
    /\ new_height = 0
    /\ pixels = <<>>
    /\ raster = <<>>
    /\ y = 0
    /\ ansi_art = <<>>
    /\ exc = "none"
    /\ EffectIdle
    /\ ValidateIdle
    /\ DownloadIdle
    /\ ZonesIdle /\ ServerIdle

\* width, height = img.size ... new_height = int(aspect_ratio * new_width * 0.55)
Measure ==
    /\ pc = "open"
    /\ new_width' = Min2(img.width, max_width)
    /\ new_height' = NewHeight(img.width, img.height, Min2(img.width, max_width))
    /\ pc' = "resize"
    /\ UNCHANGED <<img, max_width, brightness, pixels, raster, y, ansi_art, exc,
                   effectLocals>>
    /\ UNCHANGED besideRaster

\* img = img.resize((new_width, new_height)); pixels = img.convert('RGB')
Resize ==
    /\ pc = "resize"
    /\ pixels' \in Resized(img, new_width, new_height)
    /\ pc' = "rows"
    /\ UNCHANGED <<img, max_width, brightness, new_width, new_height, raster, y,
                   ansi_art, exc, effectLocals>>
    /\ UNCHANGED besideRaster

\* img.resize with a height of 0: the imaging library may refuse the size
\* with a ValueError instead of returning an empty image
ResizeRefused ==
    /\ pc = "resize"
    /\ new_height < 1
    /\ pc' = "raised"
    /\ exc' = "ValueError"
    /\ UNCHANGED <<img, max_width, brightness, new_width, new_height, pixels,
                   raster, y, ansi_art, effectLocals>>
    /\ UNCHANGED besideRaster

\* one iteration of for y in range(new_height), the inner loop included
RasterRow ==
    /\ pc = "rows"
    /\ y < new_height
    /\ LET line == [xx \in 1..new_width |-> Cell(pixels[y + 1][xx], brightness)]
       IN  raster' = Append(raster, RowOf(line))
    /\ y' = y + 1
    /\ UNCHANGED <<img, max_width, brightness, new_width, new_height, pixels, pc,
                   ansi_art, exc, effectLocals>>
    /\ UNCHANGED besideRaster

\* return '\n'.join(ansi_art)
RasterReturn ==
    /\ pc = "rows"
    /\ y >= new_height
    /\ ansi_art' = JoinNL(raster)
    /\ pc' = "returned"
    /\ UNCHANGED <<img, max_width, brightness, new_width, new_height, pixels,
                   raster, y, exc, effectLocals>>
    /\ UNCHANGED besideRaster

RasterNext ==
    \/ Measure
    \/ Resize
    \/ ResizeRefused
    \/ RasterRow
    \/ RasterReturn

SpecRaster == RasterInit /\ [][RasterNext]_vars

(* ============================ validators =============================== *)
\* The values a validator is called with: a str, an int, a float (in
\* thousandths) or None.
StrValue(s) == [type |-> "str", s |-> s, n |-> 0]
IntValue(n) == [type |-> "int", s |-> <<>>, n |-> n]
FloatValue(x) == [type |-> "float", s |-> <<>>, n |-> x]

UpperLetters == 
    << "A", "B", "C", "D", "E", "F", "G", "H", "I", "J", "K", "L", "M", "N",
      "O", "P", "Q", "R", "S", "T", "U", "V", "W", "X", "Y", "Z" >>
LowerLetters == 
    << "a", "b", "c", "d", "e", "f", "g", "h", "i", "j", "k", "l", "m", "n",
      "o", "p", "q", "r", "s", "t", "u", "v", "w", "x", "y", "z" >>

\* c.lower()
LowerChar(c) ==
    IF \E k \in 1..Len(UpperLetters) : UpperLetters[k] = c
    THEN LowerLetters[CHOOSE k \in 1..Len(UpperLetters) : UpperLetters[k] = c]
    ELSE c

\* mutant: the comparison is made on the url as it is written
LowerNot(s) == s

\* s.lower()
Lower(s) == [k \in 1..Len(s) |-> LowerChar(s[k])]

\* sub in s
Contains(s, sub) ==
    \E i \in 0..(Len(s) - Len(sub)) : SubSeq(s, i + 1, i + Len(sub)) = sub

(* ------------------------- float() of a value -------------------------- *)
\* float(s) reads a str without exponent and without underscores: blanks
\* stripped, one optional sign, then nan, inf or infinity in any case, or
\* digits with at most one point and at least one digit.
FloatText(s) == RStrip(LStrip(s))

FloatBody(s) ==
    IF FloatText(s) # <<>> /\ Head(FloatText(s)) \in {"+", "-"}
    THEN Tail(FloatText(s)) ELSE FloatText(s)

FloatSpecial(s) ==
    IF Lower(FloatBody(s)) = <<"n", "a", "n">> THEN "nan"
    ELSE IF Lower(FloatBody(s)) \in {<<"i", "n", "f">>,
                                     <<"i", "n", "f", "i", "n", "i", "t", "y">>}
    THEN "inf" ELSE "none"

DecimalOk(body) ==
    LET parts == Split(body, ".")
    IN  /\ Len(parts) <= 2
        /\ \A k \in 1..Len(parts) : \A j \in 1..Len(parts[k]) : IsDigit(parts[k][j])
        /\ \E k \in 1..Len(parts) : parts[k] # <<>>

\* the digits after the point, and the value of the first three of them
Fraction(body) ==
    LET parts == Split(body, ".") IN IF Len(parts) = 2 THEN parts[2] ELSE <<>>

Thousandths(frac) ==
    DigitsToNat(SubSeq(frac \o <<"0", "0", "0">>, 1, 3))

\* float(s) as a record: the exception it raises or "none", whether it is
\* nan or an infinity, its value in thousandths rounded toward zero, and
\* whether digits beyond the thousandths were dropped
FloatOfStr(s) ==
    LET body == FloatBody(s)
        neg == FloatText(s) # <<>> /\ Head(FloatText(s)) = "-"
        frac == Fraction(body)
        mag == DigitsToNat(Split(body, ".")[1]) * SC + Thousandths(frac)
    IN  IF FloatSpecial(s) # "none"
        THEN [exc |-> "none", special |-> FloatSpecial(s), v |-> 0, excess |-> FALSE]
        ELSE IF ~DecimalOk(body)
        THEN [exc |-> "ValueError", special |-> "none", v |-> 0, excess |-> FALSE]
        ELSE [exc |-> "none", special |-> "none",
              v |-> IF neg THEN -mag ELSE mag,
              excess |-> \E k \in 4..Len(frac) : frac[k] # "0"]

\* float(x) of any value
FloatOf(x) ==
    IF x.type = "str" THEN FloatOfStr(x.s)
    ELSE IF x.type = "float"
    THEN [exc |-> "none", special |-> "none", v |-> x.n, excess |-> FALSE]
    ELSE IF x.type = "int"
    THEN [exc |-> "none", special |-> "none", v |-> x.n * SC, excess |-> FALSE]
    ELSE [exc |-> "TypeError", special |-> "none", v |-> 0, excess |-> FALSE]

\* int(x) of a str, an int or None
IntOf(x) ==
    IF x.type = "str"
    THEN IF IntOk(x.s) THEN [exc |-> "none", v |-> IntVal(x.s)]
         ELSE [exc |-> "ValueError", v |-> 0]
    ELSE IF x.type = "int" THEN [exc |-> "none", v |-> x.n]
    ELSE [exc |-> "TypeError", v |-> 0]

(* --------------------------- outcomes ---------------------------------- *)
Returns(num, str) ==
    [kind |-> "return", num |-> num, str |-> str, exc |-> "none", msg |-> "none"]

Raises(exc_class, msg) ==
    [kind |-> "raise", num |-> 0, str |-> <<>>, exc |-> exc_class, msg |-> msg]

\* mutant: class ValidationError(ValueError)
ValidationErrorIsValueError == {"ValidationError", "ValueError", "Exception"}

\* class ValidationError(Exception): the classes an instance belongs to
ValidationErrorClasses == {"ValidationError", "Exception"}

\* except (ValueError, TypeError)
ParseHandler == {"ValueError", "TypeError"}

\* The body of the three numeric validators: conv is the exception of the
\* conversion or "none", in_range the range test, and value what is
\* returned.  A ValidationError raised inside the try block reaches the
\* except clause, which handles it only if it is a ValueError or TypeError.
Validated(conv, in_range, value, range_msg, parse_msg) ==
    IF conv \in ParseHandler THEN Raises("ValidationError", parse_msg)
    ELSE IF conv # "none" THEN Raises(conv, "none")
    ELSE IF ~in_range
    THEN IF ValidationErrorClasses \cap ParseHandler # {}
         THEN Raises("ValidationError", parse_msg)
         ELSE Raises("ValidationError", range_msg)
    ELSE Returns(value, <<>>)

\* 0.1 <= value <= 5.0; a nan compares false
BrightnessInRange(f) ==
    /\ f.special = "none"
    /\ f.v >= SC \div 10
    /\ f.v < 5 * SC \/ (f.v = 5 * SC /\ ~f.excess)

validate_brightness(x) ==
    Validated(FloatOf(x).exc, BrightnessInRange(FloatOf(x)), FloatOf(x).v,
              "Brightness must be between 0.1 and 5.0",
              "Brightness must be a valid number")

validate_resolution(x) ==
    Validated(IntOf(x).exc, 10 <= IntOf(x).v /\ IntOf(x).v <= 1000, IntOf(x).v,
              "Resolution must be between 10 and 1000",
              "Resolution must be a valid integer")

validate_effect_type(x) ==
    Validated(IntOf(x).exc, -1 <= IntOf(x).v /\ IntOf(x).v <= 4, IntOf(x).v,
              "Effect type must be between -1 and 4",
              "Effect type must be a valid integer")

\* not url: None, 0 and '' are false
Falsy(x) ==
    \/ x.type = "NoneType"
    \/ x.type = "str" /\ x.s = <<>>
    \/ x.type \in {"int", "float"} /\ x.n = 0

\* blocked_hosts
blocked_hosts ==
    << <<"l", "o", "c", "a", "l", "h", "o", "s", "t">>,
       <<"1", "2", "7", ".", "0", ".", "0", ".", "1">>,
       <<"0", ".", "0", ".", "0", ".", "0">>,
       <<":", ":", "1">> >>

HTTP == <<"h", "t", "t", "p", ":", "/", "/">>
HTTPS == <<"h", "t", "t", "p", "s", ":", "/", "/">>

validate_url(url) ==
    IF Falsy(url) \/ url.type # "str"
    THEN Raises("ValidationError", "URL must be a non-empty string")
    ELSE IF ~(StartsWith(url.s, HTTP) \/ StartsWith(url.s, HTTPS))
    THEN Raises("ValidationError", "URL must start with http:// or https://")
    ELSE IF \E k \in 1..Len(blocked_hosts) : Contains(Lower(url.s), blocked_hosts[k])
    THEN Raises("ValidationError", "Access to local network is not allowed")
    ELSE Returns(0, url.s)

(* --------------------------- inputs ------------------------------------ *)
BrightnessArguments ==
    { StrValue(<<"0", ".", "1">>),
      StrValue(<<"5", ".", "0">>),
      StrValue(<<"5">>),
      StrValue(<<"0", ".", "0", "9", "9">>),
      StrValue(<<"5", ".", "0", "0", "1">>),
      StrValue(<<"0", ".", "1", "0", "0", "1">>),
      StrValue(<<"1", ".", "0">>),
      StrValue(<<" ", "2", ".", "5", " ">>),
      StrValue(<<"0">>),
      StrValue(<<"-", "1">>),
      StrValue(<<"a", "b", "c">>),
      StrValue(<<>>),
      StrValue(<<"n", "a", "n">>),
      StrValue(<<"i", "n", "f">>),
      StrValue(<<"1", ".", "2", ".", "3">>),
      StrValue(<<".", "5">>),
      StrValue(<<"+", "3">>) }
    \cup {FloatValue(100), FloatValue(5000), FloatValue(99), FloatValue(5001),
          IntValue(3), IntValue(6), NoValue}

ResolutionArguments ==
    { StrValue(<<"1", "0">>),
      StrValue(<<"1", "0", "0", "0">>),
      StrValue(<<"9">>),
      StrValue(<<"1", "0", "0", "1">>),
      StrValue(<<"1", "6", "0">>),
      StrValue(<<" ", "5", "0", " ">>),
      StrValue(<<"+", "2", "0">>),
      StrValue(<<"-", "1", "0">>),
      StrValue(<<"1", "2", ".", "5">>),
      StrValue(<<"a", "b", "c">>),
      StrValue(<<>>),
      StrValue(<<"0">>) }
    \cup {IntValue(10), IntValue(1000), IntValue(9), IntValue(1001), NoValue}

EffectTypeArguments ==
    { StrValue(<<"-", "1">>),
      StrValue(<<"4">>),
      StrValue(<<"-", "2">>),
      StrValue(<<"5">>),
      StrValue(<<"0">>),
      StrValue(<<"2">>),
      StrValue(<<" ", "3">>),
      StrValue(<<"x">>),
      StrValue(<<>>),
      StrValue(<<"1", ".", "0">>),
      StrValue(<<"4", " ">>),
      StrValue(<<"-", "-", "1">>) }
    \cup {IntValue(-1), IntValue(4), IntValue(-2), IntValue(5), NoValue}

\* what a url starts with, and how it goes on
Schemes ==
    { <<"h", "t", "t", "p", ":", "/", "/">>,
      <<"h", "t", "t", "p", "s", ":", "/", "/">>,
      <<"f", "t", "p", ":", "/", "/">>,
      <<"H", "T", "T", "P", ":", "/", "/">>,
      <<>> }

Hosts ==
    { <<"a", ".", "i", "o", "/", "x", ".", "p", "n", "g">>,
      <<"l", "o", "c", "a", "l", "h", "o", "s", "t", "/", "x", ".", "p", "n", "g">>,
      <<"L", "o", "c", "a", "l", "H", "o", "s", "t", ":", "8", "0">>,
      <<"1", "2", "7", ".", "0", ".", "0", ".", "1">>,
      <<"0", ".", "0", ".", "0", ".", "0">>,
      <<"[", ":", ":", "1", "]", "/", "x">>,
      <<"a", ".", "i", "o", "/", "L", "o", "c", "a", "l", "h", "o", "s", "t",
        ".", "p", "n", "g">>,
      <<"1", "2", "7", ".", "0", ".", "0", ".", "1", "0">> }

UrlArguments ==
    {StrValue(scheme \o host) : scheme \in Schemes, host \in Hosts \cup {<<>>}}
    \cup {IntValue(0), IntValue(5), NoValue}

(* ------------------------- state machine ------------------------------- *)
ValidateInit ==
    /\ \/ validator = "validate_brightness" /\ argument \in BrightnessArguments
       \/ validator = "validate_resolution" /\ argument \in ResolutionArguments
       \/ validator = "validate_effect_type" /\ argument \in EffectTypeArguments
       \/ validator = "validate_url" /\ argument \in UrlArguments
    /\ outcome = NoOutcome
    /\ pc = "validate"
    /\ y = 0
    /\ ansi_art = <<>>
    /\ exc = "none"
    /\ EffectIdle
    /\ RasterIdle
    /\ DownloadIdle
    /\ ZonesIdle /\ ServerIdle

\* what a call leaves alone
besideValidate ==
    <<validator, argument, y, ansi_art, exc, effectLocals, rasterVars, downloadVars,
      zoneVars, serverVars>>

ValidateBrightness ==
    /\ pc = "validate" /\ validator = "validate_brightness"
    /\ outcome' = validate_brightness(argument)
    /\ pc' = "validated"
    /\ UNCHANGED besideValidate

ValidateResolution ==
    /\ pc = "validate" /\ validator = "validate_resolution"
    /\ outcome' = validate_resolution(argument)
    /\ pc' = "validated"
    /\ UNCHANGED besideValidate

ValidateEffectType ==
    /\ pc = "validate" /\ validator = "validate_effect_type"
    /\ outcome' = validate_effect_type(argument)
    /\ pc' = "validated"
    /\ UNCHANGED besideValidate

ValidateUrl ==
    /\ pc = "validate" /\ validator = "validate_url"
    /\ outcome' = validate_url(argument)
    /\ pc' = "validated"
    /\ UNCHANGED besideValidate

ValidateNext ==
    \/ ValidateBrightness
    \/ ValidateResolution
    \/ ValidateEffectType
    \/ ValidateUrl

SpecValidate == ValidateInit /\ [][ValidateNext]_vars

(* ============================ downloads ================================ *)
\* '.' in s, and s.rsplit('.', 1) when it is
HasDot(s) == \E k \in 1..Len(s) : s[k] = "."

LastDot(s) == CHOOSE k \in 1..Len(s) : s[k] = "." /\ \A j \in (k + 1)..Len(s) : s[j] # "."

RSplitDot(s) == <<SubSeq(s, 1, LastDot(s) - 1), SubSeq(s, LastDot(s) + 1, Len(s))>>

\* safe_chars
SafeChars ==
    {UpperLetters[k] : k \in 1..Len(UpperLetters)}
    \cup {LowerLetters[k] : k \in 1..Len(LowerLetters)}
    \cup {Digits[k] : k \in 1..Len(Digits)} \cup {"-", "_"}

\* ''.join(c if c in safe_chars else '_' for c in base_name)
Sanitized(s) == [k \in 1..Len(s) |-> IF s[k] \in SafeChars THEN s[k] ELSE "_"]

\* ALLOWED_EXTENSIONS of the server
ALLOWED_EXTENSIONS == {<<"p", "n", "g">>, <<"j", "p", "g">>, <<"j", "p", "e", "g">>, <<"g", "i", "f">>, <<"b", "m", "p">>}

\* mime_to_ext.get(content_type) for a content type that starts with
\* image/; <<>> stands for None
MimeToExt(content_type) ==
    IF content_type \in {"image/jpeg", "image/jpg"} THEN <<"j", "p", "g">>
    ELSE IF content_type = "image/png" THEN <<"p", "n", "g">>
    ELSE IF content_type = "image/gif" THEN <<"g", "i", "f">>
    ELSE IF content_type = "image/bmp" THEN <<"b", "m", "p">>
    ELSE IF content_type = "image/webp" THEN <<"w", "e", "b", "p">>
    ELSE <<>>

ImageTypes ==
    {"image/jpeg", "image/jpg", "image/png", "image/gif", "image/bmp",
     "image/webp", "image/tiff"}

\* the extension of lines 36-57: from the name in the url, else from the
\* content type of the response; <<>> stands for None
ExtensionOf(original_filename, content_type) ==
    LET from_url == IF HasDot(original_filename)
                    THEN Lower(RSplitDot(original_filename)[2]) ELSE <<>>
    IN  IF from_url = <<>> \/ from_url \notin ALLOWED_EXTENSIONS
        THEN IF content_type \in ImageTypes THEN MimeToExt(content_type)
             ELSE from_url
        ELSE from_url

\* base_name of lines 64-69
BaseName(original_filename) ==
    LET base == IF HasDot(original_filename) THEN RSplitDot(original_filename)[1]
                ELSE <<"i", "m", "a", "g", "e">>
    IN  Sanitized(SubSeq(base, 1, Min2(50, Len(base))))

\* f"{base_name}_{timestamp}.{extension}"
FirstName(base_name, timestamp, extension) ==
    base_name \o <<"_">> \o IntToStr(timestamp) \o <<".">> \o extension

\* f"{name_part}_{counter}.{extension}"
NextName(original_filename, counter, extension) ==
    RSplitDot(original_filename)[1] \o <<"_">> \o IntToStr(counter)
        \o <<".">> \o extension

\* f'/uploads/{filename}'
FileUrl(filename) == <<"/", "u", "p", "l", "o", "a", "d", "s", "/">> \o filename

\* os.path.exists(os.path.join(upload_folder, filename))
Exists(folder, filename) == \E f \in folder : f.name = filename

\* open(file_path, 'wb') and f.write(content): the file is created, or
\* replaced when there is one of that name
Written(folder, filename, content) ==
    {f \in folder : f.name # filename} \cup {[name |-> filename, content |-> content]}

(* --------------------------- inputs ------------------------------------ *)
\* number of calls of download_and_save_image in a run
MaxDownloads == 2

\* largest value of int(time.time())
MaxClock == 2

\* the request threads of the server
Threads == 1..2

\* os.path.basename(urlparse(url).path) of the urls downloaded
OriginalNames ==
    { <<"a", ".", "p", "n", "g">>,
      <<"a", "_", "1", ".", "P", "N", "G">>,
      <<"a", ".", "t", "x", "t">>,
      <<"p", "h", "o", "t", "o">> }

\* requests.get(url): a response, or a failure raise_for_status reports
Responses ==
    { [ok |-> TRUE, content_type |-> "image/png", content |-> "png-1"],
      [ok |-> TRUE, content_type |-> "image/png", content |-> "png-2"],
      [ok |-> TRUE, content_type |-> "text/html", content |-> "html"],
      [ok |-> FALSE, content_type |-> "text/html", content |-> "none"] }

\* what the upload folder holds before the first download
StartFolders == {{}, {[name |-> <<"a", "_", "1", ".", "p", "n", "g">>, content |-> "old"]}}

\* a thread that is in no call
IdleThread ==
    [pc |-> "idle", calls |-> 0, original_filename |-> <<>>, content |-> "none",
     extension |-> <<>>, filename |-> <<>>, counter |-> 0,
     returned |-> <<>>, raised |-> "none"]

(* ------------------------- state machine ------------------------------- *)
DownloadInit ==
    /\ upload_folder \in StartFolders
    /\ clock = 1
    /\ dl = [p \in Threads |-> IdleThread]
    /\ pc = "serve"
    /\ y = 0
    /\ ansi_art = <<>>
    /\ exc = "none"
    /\ EffectIdle
    /\ RasterIdle
    /\ ValidateIdle
    /\ ZonesIdle /\ ServerIdle

besideDownload ==
    <<pc, y, ansi_art, exc, effectLocals, rasterVars, validateVars, zoneVars, serverVars>>

Calls == dl[1].calls + dl[2].calls

\* Lines 32-77 of one call, which touch nothing shared but the clock: the
\* name and the extension, the request, the first candidate filename.
Begin(p) ==
    /\ dl[p].pc = "idle"
    /\ Calls < MaxDownloads
    /\ \E name \in OriginalNames, response \in Responses :
         LET extension == ExtensionOf(name, response.content_type)
             filename == FirstName(BaseName(name), clock, extension)
             called == [IdleThread EXCEPT !.calls = dl[p].calls + 1]
         IN  dl' = [dl EXCEPT ![p] =
                 IF ~response.ok
                 THEN [called EXCEPT !.raised = "RequestException"]
                 ELSE IF extension = <<>> \/ extension \notin ALLOWED_EXTENSIONS
                 THEN [called EXCEPT !.raised = "ValueError"]
                 ELSE [called EXCEPT !.pc = "while",
                                     !.original_filename = filename,
                                     !.filename = filename,
                                     !.content = response.content,
                                     !.extension = extension,
                                     !.counter = 1]]
    /\ UNCHANGED <<upload_folder, clock, besideDownload>>

\* one test of the while condition, and the loop body when it holds
While(p) ==
    /\ dl[p].pc = "while"
    /\ dl' = [dl EXCEPT ![p] =
                 IF Exists(upload_folder, dl[p].filename)
                 THEN [dl[p] EXCEPT !.filename = NextName(dl[p].original_filename,
                                                          dl[p].counter,
                                                          dl[p].extension),
                                    !.counter = dl[p].counter + 1]
                 ELSE [dl[p] EXCEPT !.pc = "save"]]
    /\ UNCHANGED <<upload_folder, clock, besideDownload>>

\* with open(file_path, 'wb') as f: f.write(response.content)
Save(p) ==
    /\ dl[p].pc = "save"
    /\ upload_folder' = Written(upload_folder, dl[p].filename, dl[p].content)
    /\ dl' = [dl EXCEPT ![p].pc = "return"]
    /\ UNCHANGED <<clock, besideDownload>>

\* file_url = f'/uploads/{filename}'; return filename, file_url
Finish(p) ==
    /\ dl[p].pc = "return"
    /\ dl' = [dl EXCEPT ![p].pc = "idle",
                        ![p].returned = <<dl[p].filename, FileUrl(dl[p].filename)>>]
    /\ UNCHANGED <<upload_folder, clock, besideDownload>>

\* a second passes
Tick ==
    /\ clock < MaxClock
    /\ clock' = clock + 1
    /\ UNCHANGED <<upload_folder, dl, besideDownload>>

DownloadNext ==
    \/ \E p \in Threads : Begin(p)
    \/ \E p \in Threads : While(p)
    \/ \E p \in Threads : Save(p)
    \/ \E p \in Threads : Finish(p)
    \/ Tick

SpecDownload == DownloadInit /\ [][DownloadNext]_vars

(* =================== the zone loop of the glitch transform ============= *)
\* the longest row of tokens
MaxTokens == 12

\* the frame of the zone loop
besideZones ==
    <<y, ansi_art, exc, effectLocals, rasterVars, validateVars, downloadVars,
      serverVars>>

\* apply_glitch_effect(chars, row) is entered with a row of zone_len tokens
ZonesInit ==
    /\ zone_len \in 0..MaxTokens
    /\ zone_total = 0
    /\ zone_list = <<>>
    /\ pc = "glitch"
    /\ y = 0
    /\ ansi_art = <<>>
    /\ exc = "none"
    /\ EffectIdle
    /\ RasterIdle
    /\ ValidateIdle
    /\ DownloadIdle
    /\ ServerIdle

\* random.random() < 0.15: num_zones = random.randint(1, 3)
RowGlitched ==
    /\ pc = "glitch"
    /\ zone_total' \in 1..3
    /\ pc' = "zones"
    /\ UNCHANGED <<zone_len, zone_list>>
    /\ UNCHANGED besideZones

\* random.random() >= 0.15: glitch_zones stays []
RowSpared ==
    /\ pc = "glitch"
    /\ pc' = "tokens"
    /\ UNCHANGED zoneVars
    /\ UNCHANGED besideZones

\* one iteration of for _ in range(num_zones)
AppendZone ==
    /\ pc = "zones"
    /\ Len(zone_list) < zone_total
    /\ \E zone \in ZoneDraws(zone_len) : zone_list' = Append(zone_list, zone)
    /\ UNCHANGED <<zone_len, zone_total, pc>>
    /\ UNCHANGED besideZones

\* the zone loop is over, the token loop starts
ZonesDrawn ==
    /\ pc = "zones"
    /\ Len(zone_list) >= zone_total
    /\ pc' = "tokens"
    /\ UNCHANGED zoneVars
    /\ UNCHANGED besideZones

ZonesNext ==
    \/ RowGlitched
    \/ RowSpared
    \/ AppendZone
    \/ ZonesDrawn

SpecZones == ZonesInit /\ [][ZonesNext]_vars

(* ================= the fire transform on taller grids ================== *)
\* the number of rows of a grid
MaxRows == 4

\* rows of one cell, a colour, black or a directive with channels far above
\* 255, and a row of two cells
TallRows ==
    { ColorDirective(255, 90, 30) \o <<"#">>,
      ColorDirective(0, 0, 0) \o <<" ">>,
      ColorDirective(999, 999, 999) \o <<"#">>,
      ColorDirective(255, 90, 30) \o <<"#">> \o ColorDirective(10, 20, 25) \o <<".">> }

\* grids of 1..MaxRows equal rows
TallGrids == {JoinNL([k \in 1..n |-> row]) : n \in 1..MaxRows, row \in TallRows}

\* generate_simple_effect(ansi_art, 3) is called on a tall grid
InitFire ==
    /\ ansi_art \in TallGrids
    /\ effect_type = 3
    /\ pc = "call"
    /\ lines = <<>>
    /\ y = 0
    /\ new_lines = <<>>
    /\ row_chars = <<>>
    /\ row_out = <<>>
    /\ in_glitch_zone = <<>>
    /\ result = <<>>
    /\ exc = "none"
    /\ run = 1
    /\ first_result = <<>>
    /\ RasterIdle
    /\ ValidateIdle
    /\ DownloadIdle
    /\ ZonesIdle /\ ServerIdle

NextFire ==
    \/ SplitLines
    \/ FireRow
    \/ Return

SpecFire == InitFire /\ [][NextFire]_vars

(* ============== two calls on grids with the same row count ============= *)
\* rows: empty, a glyph, a coloured cell and a black cell
PairRows ==
    { <<>>,
      <<"#">>,
      ColorDirective(255, 90, 30) \o <<"#">>,
      ColorDirective(0, 0, 0) \o <<" ">> }

\* grids of 1..MaxPieces rows
PairGrids == {JoinNL(rows) : rows \in UNION {[1..n -> PairRows] : n \in 1..MaxPieces}}

\* generate_simple_effect(ansi_art, 0) is called
InitPair ==
    /\ ansi_art \in PairGrids
    /\ effect_type = 0
    /\ pc = "call"
    /\ lines = <<>>
    /\ y = 0
    /\ new_lines = <<>>
    /\ row_chars = <<>>
    /\ row_out = <<>>
    /\ in_glitch_zone = <<>>
    /\ result = <<>>
    /\ exc = "none"
    /\ run = 1
    /\ first_result = <<>>
    /\ RasterIdle
    /\ ValidateIdle
    /\ DownloadIdle
    /\ ZonesIdle /\ ServerIdle

\* the caller keeps the returned string and calls again with a grid of as
\* many rows; row_chars and row_out go on recording, so the rows of the
\* first call stay in front of those of the second
CallSibling ==
    /\ pc = "done" /\ run = 1
    /\ ansi_art' \in {g \in PairGrids : Len(Split(g, NL)) = Len(lines)}
    /\ first_result' = result
    /\ run' = 2
    /\ pc' = "call"
    /\ lines' = <<>>
    /\ y' = 0
    /\ new_lines' = <<>>
    /\ in_glitch_zone' = <<>>
    /\ result' = <<>>
    /\ UNCHANGED <<effect_type, exc, row_chars, row_out>>
    /\ UNCHANGED besideEffect

NextPair ==
    \/ SplitLines
    \/ RainbowRow
    \/ Return
    \/ CallSibling

SpecPair == InitPair /\ [][NextPair]_vars

(* ============================ the server =============================== *)
\* escape_js_string: a backslash is doubled, a backtick and the pair ${ get
\* a backslash in front.  The two characters are written by name.
Backslash == "BACKSLASH"
Backtick == "BACKTICK"

EscapeChar(s, k) ==
    IF s[k] = Backslash THEN <<Backslash, Backslash>>
    ELSE IF s[k] = Backtick THEN <<Backslash, Backtick>>
    ELSE IF s[k] = "$" /\ k < Len(s) /\ s[k + 1] = "{" THEN <<Backslash, "$">>
    ELSE <<s[k]>>

escape_js_string(text) == JoinEmpty([k \in 1..Len(text) |-> EscapeChar(text, k)])

\* create_html: the page is the template with the escaped grid in the place
\* of {{ansi_art}}; the page is written to output_path
create_html(art, output_path) == [name |-> output_path, art |-> escape_js_string(art)]

\* '..' in filename or filename.startswith('/')
UnsafeName(name) ==
    \/ \E k \in 1..(Len(name) - 1) : name[k] = "." /\ name[k + 1] = "."
    \/ name # <<>> /\ name[1] = "/"

\* request.args.get(key, default): a parameter left out of the query string
Absent == <<"ABSENT">>

Arg(value, default) == StrValue(IF value = Absent THEN default ELSE value)

\* the three validators in the order a handler calls them; the first that
\* raises ends the try block
FirstRaise(outcomes) ==
    IF \E k \in 1..Len(outcomes) : outcomes[k].kind = "raise"
    THEN outcomes[CHOOSE k \in 1..Len(outcomes) :
                      /\ outcomes[k].kind = "raise"
                      /\ \A j \in 1..(k - 1) : outcomes[j].kind # "raise"]
    ELSE NoOutcome

(* --------------------------- inputs ------------------------------------ *)
\* the images a request can name: a column of two white pixels, one black
\* pixel, and a column of four pixels of several colours
ServerImages ==
    { [width |-> 1, height |-> 2, uniform |-> TRUE, color |-> White],
      [width |-> 1, height |-> 1, uniform |-> TRUE, color |-> Black],
      [width |-> 1, height |-> 4, uniform |-> FALSE, color |-> Pixel(255, 90, 30)] }

FileNames ==
    { <<"a", ".", "p", "n", "g">>,
      <<".", ".", "/", "a", ".", "p", "n", "g">>,
      <<>> }

Requests ==
    [ route : {"convert", "update_ansi"},
      name : FileNames,
      named : BOOLEAN,
      on_disk : BOOLEAN,
      image : ServerImages,
      brightness : {<<"1", ".", "0">>, <<"0", ".", "5">>, <<"a", "b", "c">>, <<"9">>},
      resolution : {<<"8", "0">>, <<"5">>},
      effect : {Absent, <<"-", "1">>, <<"0">>, <<"1">>, <<"2">>, <<"3">>, <<"4">>,
                <<"5">>, <<"x">>} ]

(* ------------------------- state machine ------------------------------- *)
\* a request arrives.  The route /convert/<path:filename> always carries a
\* name; a file that is not on disk has no image.
ServerInit ==
    /\ request \in {q \in Requests :
                      /\ q.route = "convert" => q.named /\ q.name # <<>>
                      /\ ~q.named => q.name = <<>>
                      /\ ~q.on_disk => q.image.height = 1
                      /\ UnsafeName(q.name) => ~q.on_disk}
    /\ validated = [brightness |-> 0, resolution |-> 0, effect |-> 0]
    /\ reply = NoResponse
    /\ converted = {}
    /\ invoked = <<>>
    /\ pc = "route"
    /\ y = 0
    /\ ansi_art = <<>>
    /\ exc = "none"
    /\ EffectIdle
    /\ RasterIdle
    /\ ValidateIdle
    /\ DownloadIdle
    /\ ZonesIdle

\* what the handlers leave alone between the calls they make
besideServer ==
    <<effectLocals, rasterVars, validateVars, downloadVars, zoneVars>>

Responds(status, text, body) ==
    /\ reply' = [status |-> status, text |-> text, body |-> body]
    /\ pc' = "responded"

\* convert_image: the test of the filename
ConvertName ==
    /\ pc = "route" /\ request.route = "convert"
    /\ IF UnsafeName(request.name)
       THEN Responds(400, "Invalid filename", <<>>)
       ELSE pc' = "args" /\ UNCHANGED reply
    /\ UNCHANGED <<request, validated, converted, invoked, y, ansi_art, exc>>
    /\ UNCHANGED besideServer

\* update_ansi: image = request.args.get('image'); if not image
UpdateImage ==
    /\ pc = "route" /\ request.route = "update_ansi"
    /\ IF ~request.named \/ request.name = <<>>
       THEN Responds(400, "Image parameter required", <<>>)
       ELSE pc' = "args" /\ UNCHANGED reply
    /\ UNCHANGED <<request, validated, converted, invoked, y, ansi_art, exc>>
    /\ UNCHANGED besideServer

\* mutant: a parameter that fails validation is replaced by its default and
\* the handler carries on
ValidateParametersLenient ==
    /\ pc = "args"
    /\ LET b == validate_brightness(Arg(request.brightness, <<"1", ".", "0">>))
           r == validate_resolution(Arg(request.resolution, <<"8", "0">>))
           e == validate_effect_type(Arg(request.effect, <<"-", "1">>))
       IN  validated' = [brightness |-> IF b.kind = "raise" THEN SC ELSE b.num,
                         resolution |-> IF r.kind = "raise" THEN 80 ELSE r.num,
                         effect |-> IF e.kind = "raise" THEN -1 ELSE e.num]
    /\ pc' = IF request.route = "convert" THEN "find" ELSE "path"
    /\ UNCHANGED <<request, reply, converted, invoked, y, ansi_art, exc>>
    /\ UNCHANGED besideServer

\* the three validator calls of a handler and its except ValidationError
\* clause; /convert defaults the resolution to 160, /update_ansi to 80
ValidateParameters ==
    /\ pc = "args"
    /\ LET b == validate_brightness(Arg(request.brightness, <<"1", ".", "0">>))
           r == validate_resolution(
                    Arg(request.resolution,
                        IF request.route = "convert"
                        THEN <<"1", "6", "0">> ELSE <<"8", "0">>))
           e == validate_effect_type(Arg(request.effect, <<"-", "1">>))
           raised == FirstRaise(IF request.route = "convert"
                                THEN <<b, r, e>> ELSE <<b, e, r>>)
       IN  IF raised.kind = "raise"
           THEN /\ IF raised.exc \in ValidationErrorClasses
                   THEN Responds(400, raised.msg, <<>>)
                   ELSE Responds(500, "Internal server error", <<>>)
                /\ UNCHANGED validated
           ELSE /\ validated' = [brightness |-> b.num, resolution |-> r.num,
                                 effect |-> e.num]
                /\ pc' = IF request.route = "convert" THEN "find" ELSE "path"
                /\ UNCHANGED reply
    /\ UNCHANGED <<request, converted, invoked, y, ansi_art, exc>>
    /\ UNCHANGED besideServer

\* convert_image: the image is looked up under images/ and uploads/; a name
\* that passed the test of the filename stays inside these folders
ConvertFind ==
    /\ pc = "find"
    /\ IF ~request.on_disk
       THEN Responds(404, "Image not found", <<>>)
       ELSE pc' = "convert" /\ UNCHANGED reply
    /\ UNCHANGED <<request, validated, converted, invoked, y, ansi_art, exc>>
    /\ UNCHANGED besideServer

\* update_ansi: the test of the image path, after the validation
UpdatePath ==
    /\ pc = "path"
    /\ IF UnsafeName(request.name)
       THEN Responds(400, "Invalid image path", <<>>)
       ELSE pc' = "convert" /\ UNCHANGED reply
    /\ UNCHANGED <<request, validated, converted, invoked, y, ansi_art, exc>>
    /\ UNCHANGED besideServer

\* ansi_art = image_to_ansi(image_path, max_width=resolution,
\* brightness=brightness): Image.open raises when the file is missing
CallImageToAnsi ==
    /\ pc = "convert"
    /\ invoked' = Append(invoked, "image_to_ansi")
    /\ IF request.on_disk
       THEN /\ img' = request.image
            /\ max_width' = validated.resolution
            /\ brightness' = validated.brightness
            /\ pc' = "open"
            /\ UNCHANGED exc
       ELSE /\ pc' = "raised"
            /\ exc' = "FileNotFoundError"
            /\ UNCHANGED <<img, max_width, brightness>>
    /\ UNCHANGED <<request, validated, reply, converted, y, ansi_art>>
    /\ UNCHANGED <<new_width, new_height, pixels, raster>>
    /\ UNCHANGED <<effectLocals, validateVars, downloadVars, zoneVars>>

\* mutant: if effect > 0
ApplyEffectPositive ==
    /\ pc = "returned"
    /\ IF validated.effect > 0
       THEN /\ invoked' = Append(invoked, "generate_simple_effect")
            /\ effect_type' = validated.effect
            /\ pc' = "call"
       ELSE /\ pc' = "finish"
            /\ UNCHANGED <<invoked, effect_type>>
    /\ y' = 0
    /\ UNCHANGED <<request, validated, reply, converted, ansi_art, exc>>
    /\ UNCHANGED <<lines, new_lines, row_chars, row_out, in_glitch_zone, result,
                   run, first_result>>
    /\ UNCHANGED <<rasterVars, validateVars, downloadVars, zoneVars>>

\* if effect >= 0: ansi_art = generate_simple_effect(ansi_art, effect)
ApplyEffect ==
    /\ pc = "returned"
    /\ IF validated.effect >= 0
       THEN /\ invoked' = Append(invoked, "generate_simple_effect")
            /\ effect_type' = validated.effect
            /\ pc' = "call"
       ELSE /\ pc' = "finish"
            /\ UNCHANGED <<invoked, effect_type>>
    /\ y' = 0
    /\ UNCHANGED <<request, validated, reply, converted, ansi_art, exc>>
    /\ UNCHANGED <<lines, new_lines, row_chars, row_out, in_glitch_zone, result,
                   run, first_result>>
    /\ UNCHANGED <<rasterVars, validateVars, downloadVars, zoneVars>>

\* the value generate_simple_effect returned is bound to ansi_art
EffectReturned ==
    /\ pc = "done"
    /\ ansi_art' = result
    /\ pc' = "finish"
    /\ UNCHANGED <<request, validated, reply, converted, invoked, y, exc>>
    /\ UNCHANGED besideServer

\* convert_image: create_html(ansi_art, output_path, image_path) and
\* send_file(output_path); update_ansi: return ansi_art
Respond ==
    /\ pc = "finish"
    /\ IF request.route = "convert"
       THEN LET page == create_html(ansi_art, request.name \o <<".", "h", "t", "m", "l">>)
            IN  /\ invoked' = Append(invoked, "create_html")
                /\ converted' = converted \cup {page}
                /\ Responds(200, "page", page.art)
       ELSE /\ Responds(200, "grid", ansi_art)
            /\ UNCHANGED <<invoked, converted>>
    /\ UNCHANGED <<request, validated, y, ansi_art, exc>>
    /\ UNCHANGED besideServer

\* except Exception: "Internal server error", 500
InternalError ==
    /\ pc = "raised"
    /\ Responds(500, "Internal server error", <<>>)
    /\ UNCHANGED <<request, validated, converted, invoked, y, ansi_art, exc>>
    /\ UNCHANGED besideServer

ServerNext ==
    \/ ConvertName
    \/ UpdateImage
    \/ ValidateParameters
    \/ ConvertFind
    \/ UpdatePath
    \/ CallImageToAnsi
    \/ Measure
    \/ Resize
    \/ ResizeRefused
    \/ RasterRow
    \/ RasterReturn
    \/ ApplyEffect
    \/ SplitLines
    \/ RainbowRow
    \/ GlitchRow
    \/ MatrixRow
    \/ FireRow
    \/ NeonRow
    \/ Return
    \/ EffectReturned
    \/ Respond
    \/ InternalError

SpecServer == ServerInit /\ [][ServerNext]_vars

(* ============================ claims ================================== *)
Done == pc = "done"

\* the rows of the returned string
ResultRows == Split(result, NL)

Rows == 1..Len(row_chars)

Toks(r) == 1..Len(row_chars[r])

\* a directive token as the tokenizer cuts it: ESC [ ... up to the first m
IsDirective(t) ==
    /\ Len(t) >= 3
    /\ t[1] = ESC /\ t[2] = "["
    /\ t[Len(t)] = "m"
    /\ \A k \in 1..(Len(t) - 1) : t[k] # "m"

IsLiteral(t) == Len(t) = 1

IsColor(t) == StartsWith(t, PREFIX)

SomeRewritten == \E r \in Rows : \E k \in Toks(r) : row_out[r][k].rew

\* C1: with effect selector -1 the returned string equals the input grid,
\* element for element, whatever the grid contains.
C1_Identity == (Done /\ effect_type = -1) => result = ansi_art

\* a two-row grid with a directive in it went through selector -1
C1_Witness ==
    /\ Done /\ effect_type = -1 /\ Len(lines) = 2
    /\ \E r \in Rows : \E k \in Toks(r) : IsDirective(row_chars[r][k])

\* C2: every token of a row is a directive (ESC [ through the next m) or one
\* literal character, and the tokens of a row, joined unchanged in order, are
\* the row.
C2_TokenizerLossless ==
    \A r \in Rows :
        /\ JoinEmpty(row_chars[r]) = lines[r]
        /\ \A k \in Toks(r) : IsDirective(row_chars[r][k]) \/ IsLiteral(row_chars[r][k])

\* a row with a directive and with an ESC [ that no m follows
C2_Witness ==
    \E r \in Rows :
        /\ \E k \in Toks(r) : IsDirective(row_chars[r][k])
        /\ \E k \in Toks(r) : k < Len(row_chars[r]) /\ row_chars[r][k] = <<ESC>>
                              /\ row_chars[r][k + 1] = <<"[">>

\* C3: for every selector the returned grid has as many rows as the input,
\* and tokenizing each returned row gives as many tokens as the input row had,
\* directives where it had directives and literals where it had literals.
C3_ShapePreserved ==
    Done =>
        /\ Len(ResultRows) = Len(lines)
        /\ \A r \in Rows :
             LET tin == row_chars[r]
                 tout == Tokenize(ResultRows[r], 0)
             IN  /\ Len(tout) = Len(tin)
                 /\ \A k \in 1..Len(tin) :
                        /\ IsDirective(tout[k]) <=> IsDirective(tin[k])
                        /\ IsLiteral(tout[k]) <=> IsLiteral(tin[k])

\* a two-row grid in which a transform rewrote a directive to another text
C3_Witness ==
    /\ Done /\ Len(lines) = 2
    /\ \E r \in Rows : \E k \in Toks(r) :
           row_out[r][k].rew /\ row_out[r][k].tok # row_chars[r][k]

\* ESC[38;2;<int 0-255>;<int 0-255>;<int 0-255>m or exactly ESC[0m
InByte(field) == AllDigits(field) /\ DigitsToNat(field) <= 255

WellFormedDirective(t) ==
    \/ t = RESET
    \/ /\ IsColor(t)
       /\ Len(Split(Slice(t, 7, Len(t) - 1), ";")) = 3
       /\ \A f \in 1..3 : InByte(Split(Slice(t, 7, Len(t) - 1), ";")[f])

InputWellFormed ==
    \A r \in 1..Len(lines) :
        LET toks == Tokenize(lines[r], 0)
        IN  \A k \in 1..Len(toks) : IsDirective(toks[k]) => WellFormedDirective(toks[k])

\* C4: under the selectors 0..4, when every directive of the input is a
\* colour directive with channels in 0..255 or the reset directive, so is
\* every directive of the output.
C4_DirectivesWellFormed ==
    (Done /\ effect_type \in 0..4 /\ InputWellFormed) =>
        \A r \in 1..Len(ResultRows) :
            LET toks == Tokenize(ResultRows[r], 0)
            IN  \A k \in 1..Len(toks) :
                    IsDirective(toks[k]) => WellFormedDirective(toks[k])

\* a well-formed grid with a reset directive in which a colour was rewritten
C4_Witness ==
    /\ Done /\ effect_type \in 0..4 /\ InputWellFormed /\ SomeRewritten
    /\ \E r \in Rows : \E k \in Toks(r) : row_chars[r][k] = RESET

\* the three channels a rewritten token carries
OutRGB(r, k) == ParseRGB(row_out[r][k].tok)

InRange(c) == c.r \in 0..255 /\ c.g \in 0..255 /\ c.b \in 0..255

\* C5: under glitch, matrix, fire and neon, for every directive whose payload
\* parses as three integers (a channel above 255 or below 0 included) and
\* every random outcome, the three channels of the rewritten directive lie in
\* 0..255.
C5_ChannelsInRange ==
    effect_type \in 1..4 =>
        \A r \in Rows : \A k \in Toks(r) : row_out[r][k].rew => InRange(OutRGB(r, k))

\* C6: under the selectors 0..4 every token that is no colour directive is in
\* the output unchanged, at the position it had in the input row.
C6_NonColorUnchanged ==
    effect_type \in 0..4 =>
        \A r \in Rows : \A k \in Toks(r) :
            ~IsColor(row_chars[r][k]) =>
                /\ row_out[r][k].tok = row_chars[r][k]
                /\ Done => LET tout == Tokenize(ResultRows[r], 0)
                           IN  k <= Len(tout) /\ tout[k] = row_chars[r][k]

\* a row with a rewritten colour, a glyph and the reset directive
C6_Witness ==
    /\ Done /\ effect_type \in 0..4
    /\ \E r \in Rows :
         /\ \E k \in Toks(r) : row_out[r][k].rew /\ row_out[r][k].tok # row_chars[r][k]
         /\ \E k \in Toks(r) : row_chars[r][k] = <<"#">>
         /\ \E k \in Toks(r) : row_chars[r][k] = RESET

\* a token ESC[38;2;...m whose payload is not three ;-separated integers
Malformed(t) ==
    /\ IsColor(t)
    /\ LET f == Split(Slice(t, 7, Len(t) - 1), ";")
       IN  Len(f) # 3 \/ \E i \in 1..Len(f) : ~IntOk(f[i])

\* C7: under the selectors 0..4 a colour directive with a malformed payload
\* never makes the call raise, and the token is in the output as it was.
C7_MalformedKept ==
    effect_type \in 0..4 =>
        /\ pc # "raised" /\ exc = "none"
        /\ \A r \in Rows : \A k \in Toks(r) :
               Malformed(row_chars[r][k]) =>
                   /\ row_out[r][k].tok = row_chars[r][k]
                   /\ Done => LET tout == Tokenize(ResultRows[r], 0)
                              IN  k <= Len(tout) /\ tout[k] = row_chars[r][k]

\* the glitch transform met a malformed directive inside a glitch zone
C7_Witness ==
    /\ Done /\ effect_type = 1 /\ Len(row_chars) >= 1
    /\ \E k \in Toks(Len(row_chars)) :
           Malformed(row_chars[Len(row_chars)][k]) /\ in_glitch_zone[k]

\* C8: with a selector outside -1..4 the call does not raise and returns the
\* input grid unchanged.
C8_UnknownSelectorIdentity ==
    effect_type \notin (-1)..4 =>
        /\ pc # "raised" /\ exc = "none"
        /\ Done => result = ansi_art

\* selector 5 on a two-row grid with a directive a transform would rewrite
C8_Witness ==
    /\ Done /\ effect_type = 5 /\ Len(lines) = 2
    /\ \E r \in Rows : \E k \in Toks(r) : Parses(row_chars[r][k])

\* a colour directive with a payload field that carries a sign
HasSignedField(t) ==
    /\ IsColor(t)
    /\ LET f == Split(Slice(t, 7, Len(t) - 1), ";")
       IN  \E i \in 1..Len(f) : LStrip(f[i]) # <<>> /\ Head(LStrip(f[i])) \in {"-", "+"}

\* C9: under the selectors 0..4 a colour directive whose payload holds a
\* negative or explicitly signed integer passes to the output unmodified.
C9_SignedKept ==
    effect_type \in 0..4 =>
        \A r \in Rows : \A k \in Toks(r) :
            HasSignedField(row_chars[r][k]) => row_out[r][k].tok = row_chars[r][k]

Returned == pc = "returned"

\* the tokens of row i of the list image_to_ansi builds
RasterToks(i) == Tokenize(raster[i], 0)

\* the number of cells of a row: its colour directives
CellCount(i) == Cardinality({k \in 1..Len(RasterToks(i)) : IsColor(RasterToks(i)[k])})

\* round(min(W, M) * (H / W) * 0.55), on exact fractions
RoundedRows(W, H, M) == RoundDiv(Min2(W, M) * H * 55, W * 100)

\* C12: a source of width W and height H rasterized with max_width M gives
\* round(min(W, M) * (H / W) * 0.55) rows of min(W, M) cells each.
C12_DimensionLaw ==
    Returned =>
        /\ Len(raster) = RoundedRows(img.width, img.height, max_width)
        /\ \A i \in 1..Len(raster) : CellCount(i) = Min2(img.width, max_width)

\* C13: a 1x1 image rasterized with max_width 1 and brightness 1.0 gives one
\* row, a cell and the reset directive: white as 255;255;255 with the full
\* block, black as 0;0;0 with a space.
C13_OnePixelScenarios ==
    (img.width = 1 /\ img.height = 1 /\ max_width = 1 /\ brightness = SC) =>
        /\ pc # "raised"
        /\ (Returned /\ img.color = White) =>
               ansi_art = ColorDirective(255, 255, 255) \o <<FullBlock>> \o RESET
        /\ (Returned /\ img.color = Black) =>
               ansi_art = ColorDirective(0, 0, 0) \o <<Space>> \o RESET

\* the glyph of the real-valued average s / 3 of a channel sum s:
\* s / 3 < t exactly when s < 3 * t
GlyphOfAverage(s) ==
    IF s < 3 * 32 THEN Space
    ELSE IF s < 3 * 96 THEN LightShade
    ELSE IF s < 3 * 160 THEN MediumShade
    ELSE IF s < 3 * 224 THEN DarkShade
    ELSE FullBlock

\* C14: for channels in 0..255 a cell is the directive ESC[38;2;r;g;bm and
\* then one glyph, the one the real-valued average (r + g + b) / 3 selects
\* among [0,32), [32,96), [96,160), [160,224) and [224,256).
C14_GlyphBuckets ==
    \A i \in 1..Len(raster) : \A xx \in 1..new_width :
        LET p == pixels[i][xx]
            r == Adjust(p.r, brightness)
            g == Adjust(p.g, brightness)
            b == Adjust(p.b, brightness)
            toks == RasterToks(i)
        IN  (r \in 0..255 /\ g \in 0..255 /\ b \in 0..255) =>
                /\ Len(toks) >= 2 * xx
                /\ toks[2 * xx - 1] = ColorDirective(r, g, b)
                /\ toks[2 * xx] = <<GlyphOfAverage(r + g + b)>>

\* a cell whose channel sum is 287: its average 95.67 is below 96 and rounds
\* to 96; it was given the light shade
C14_Witness ==
    /\ Returned /\ brightness = SC
    /\ \E i \in 1..Len(raster) : \E xx \in 1..new_width :
         /\ pixels[i][xx] = Pixel(95, 96, 96)
         /\ RasterToks(i)[2 * xx] = <<LightShade>>

\* C15: whatever the brightness factor, a negative one included, every
\* channel written into a colour directive of the grid is in 0..255.
C15_ChannelsClamped ==
    \A i \in 1..Len(raster) : \A k \in 1..Len(RasterToks(i)) :
        Parses(RasterToks(i)[k]) => InRange(ParseRGB(RasterToks(i)[k]))

\* the position of a glyph in Glyphs: 1 is the darkest
BucketOfGlyph(t) == CHOOSE n \in 1..Len(Glyphs) : <<Glyphs[n]>> = t

\* C16: for a pixel and two positive brightness factors f1 <= f2 the glyph
\* selected under f2 is not darker than the one selected under f1.
C16_BrightnessMonotone ==
    brightness > 0 =>
        \A i \in 1..Len(raster) : \A xx \in 1..new_width :
            \A f1 \in BrightnessFactors :
                (0 < f1 /\ f1 <= brightness) =>
                    LET p == pixels[i][xx]
                        darker == Cell(p, f1)
                    IN  BucketOfGlyph(<<darker[Len(darker)]>>)
                            <= BucketOfGlyph(RasterToks(i)[2 * xx])

\* a pixel that is neither black nor white was rasterized at factor 5.0 and
\* got the full block, while factor 0.1 gives it the space
C16_Witness ==
    /\ Returned /\ brightness = 5 * SC
    /\ \E i \in 1..Len(raster) : \E xx \in 1..new_width :
         /\ pixels[i][xx] = Pixel(96, 96, 96)
         /\ RasterToks(i)[2 * xx] = <<FullBlock>>
         /\ Cell(pixels[i][xx], SC \div 10)[Len(Cell(pixels[i][xx], SC \div 10))] = Space

\* C17: every row of a returned grid is new_width cells, a colour directive
\* and one glyph each, in the order of the pixels, and then one reset
\* directive; the rows are joined by single line feeds with none at the end.
C17_GridStructure ==
    Returned =>
        /\ Len(raster) = new_height
        /\ ansi_art = JoinNL(raster)
        /\ raster # <<>> =>
             /\ \A i \in 1..Len(raster) :
                  \A k \in 1..Len(raster[i]) : raster[i][k] # NL
             /\ Cardinality({k \in 1..Len(ansi_art) : ansi_art[k] = NL})
                  = Len(raster) - 1
             /\ ansi_art[Len(ansi_art)] # NL
        /\ \A i \in 1..Len(raster) :
             LET toks == RasterToks(i)
             IN  /\ Len(toks) = 2 * new_width + 1
                 /\ toks[Len(toks)] = RESET
                 /\ \A xx \in 1..new_width :
                      /\ IsColor(toks[2 * xx - 1])
                      /\ ParseRGB(toks[2 * xx - 1])
                           = Pixel(Adjust(pixels[i][xx].r, brightness),
                                   Adjust(pixels[i][xx].g, brightness),
                                   Adjust(pixels[i][xx].b, brightness))
                      /\ \E n \in 1..Len(Glyphs) : toks[2 * xx] = <<Glyphs[n]>>

\* a grid of two rows of three cells with different colours was returned
C17_Witness ==
    /\ Returned /\ Len(raster) = 2 /\ new_width = 3
    /\ pixels[1][1] # pixels[1][2]
    /\ raster[1] # raster[2]

(* ---------------------- claims on the validators ----------------------- *)
Validated3 == pc = "validated" /\ validator # "validate_url"

\* the conversion of the argument by the validator called: whether it
\* succeeds, and whether the converted value is in the validator's range
Converts ==
    IF validator = "validate_brightness" THEN FloatOf(argument).exc = "none"
    ELSE IntOf(argument).exc = "none"

ConvertedInRange ==
    IF validator = "validate_brightness" THEN BrightnessInRange(FloatOf(argument))
    ELSE IF validator = "validate_resolution" THEN IntOf(argument).v \in 10..1000
    ELSE IntOf(argument).v \in (-1)..4

RangeMessages ==
    { "Brightness must be between 0.1 and 5.0",
      "Resolution must be between 10 and 1000",
      "Effect type must be between -1 and 4" }

ParseMessages ==
    { "Brightness must be a valid number",
      "Resolution must be a valid integer",
      "Effect type must be a valid integer" }

\* C18: validate_brightness, validate_resolution and validate_effect_type
\* return the converted value exactly when it is in 0.1..5.0, 10..1000 and
\* -1..4; a number out of range raises ValidationError with the range
\* message, an input that does not convert raises it with the parse message.
C18_ValidatorsRange ==
    Validated3 =>
        /\ outcome.kind = "return" <=> (Converts /\ ConvertedInRange)
        /\ outcome.kind = "return" =>
             IF validator = "validate_brightness"
             THEN outcome.num \in (SC \div 10)..(5 * SC)
                  /\ outcome.num = FloatOf(argument).v
             ELSE IF validator = "validate_resolution"
             THEN outcome.num \in 10..1000 /\ outcome.num = IntOf(argument).v
             ELSE outcome.num \in (-1)..4 /\ outcome.num = IntOf(argument).v
        /\ outcome.kind = "raise" =>
             /\ outcome.exc = "ValidationError"
             /\ Converts => outcome.msg \in RangeMessages
             /\ ~Converts => outcome.msg \in ParseMessages

\* validate_resolution('1001') raised the range message, not the parse one
C18_Witness ==
    /\ Validated3 /\ validator = "validate_resolution"
    /\ argument = StrValue(<<"1", "0", "0", "1">>)
    /\ outcome.kind = "raise"
    /\ outcome.msg = "Resolution must be between 10 and 1000"

\* the characters a and b are equal up to case
SameLetter(a, b) == LowerChar(a) = LowerChar(b)

\* sub occurs in s, case ignored
ContainsIgnoringCase(s, sub) ==
    \E i \in 0..(Len(s) - Len(sub)) :
        \A j \in 1..Len(sub) : SameLetter(s[i + j], sub[j])

NamesLocalHost(s) ==
    \/ ContainsIgnoringCase(s, <<"l", "o", "c", "a", "l", "h", "o", "s", "t">>)
    \/ ContainsIgnoringCase(s, <<"1", "2", "7", ".", "0", ".", "0", ".", "1">>)
    \/ ContainsIgnoringCase(s, <<"0", ".", "0", ".", "0", ".", "0">>)
    \/ ContainsIgnoringCase(s, <<":", ":", "1">>)

HasWebScheme(s) ==
    \/ StartsWith(s, <<"h", "t", "t", "p", ":", "/", "/">>)
    \/ StartsWith(s, <<"h", "t", "t", "p", "s", ":", "/", "/">>)

\* C20: validate_url returns its argument unchanged exactly when it is a
\* non-empty str that starts with http:// or https:// and holds none of
\* localhost, 127.0.0.1, 0.0.0.0 and ::1 in any case; otherwise it raises
\* ValidationError, testing emptiness, then the scheme, then the host.
C20_ValidateUrl ==
    (pc = "validated" /\ validator = "validate_url") =>
        LET nonempty == argument.type = "str" /\ argument.s # <<>>
        IN  IF ~nonempty
            THEN outcome = Raises("ValidationError", "URL must be a non-empty string")
            ELSE IF ~HasWebScheme(argument.s)
            THEN outcome = Raises("ValidationError",
                                  "URL must start with http:// or https://")
            ELSE IF NamesLocalHost(argument.s)
            THEN outcome = Raises("ValidationError",
                                  "Access to local network is not allowed")
            ELSE outcome = Returns(0, argument.s)

\* ftp://localhost/x.png was refused, and for its scheme
C20_Witness ==
    /\ pc = "validated" /\ validator = "validate_url"
    /\ argument.type = "str"
    /\ StartsWith(argument.s, <<"f", "t", "p", ":", "/", "/", "l", "o", "c", "a", "l">>)
    /\ outcome.msg = "URL must start with http:// or https://"

(* ----------------------- claims on the downloads ----------------------- *)
\* C19: download_and_save_image never overwrites a file: the name it
\* writes is the name of no file of the upload folder, every file stays in
\* the folder with the content it had, and the file_url returned is
\* /uploads/ followed by the filename returned.
C19_NeverOverwrites ==
    [][ /\ \A f \in upload_folder : f \in upload_folder'
        /\ \A p \in Threads :
             (dl[p].pc = "save" /\ dl'[p].pc = "return") =>
                 ~Exists(upload_folder, dl[p].filename)
        /\ \A p \in Threads :
             dl'[p].returned # <<>> =>
                 dl'[p].returned[2]
                     = <<"/", "u", "p", "l", "o", "a", "d", "s", "/">>
                           \o dl'[p].returned[1] ]_vars

(* ------------------ claims on the rasterizer, continued ---------------- *)
\* round(x) of a non-negative float: to the nearest integer, a tie to the
\* even one
PyRound(x) ==
    LET q == x \div SC
        rem == x % SC
    IN  IF 2 * rem < SC THEN q
        ELSE IF 2 * rem > SC THEN q + 1
        ELSE IF q % 2 = 0 THEN q ELSE q + 1

\* C21: for a channel c in 0..255 and a positive brightness factor f the
\* channel written into the cell's directive is min(255, round(c * f)).
C21_ChannelsRounded ==
    brightness > 0 =>
        \A i \in 1..Len(raster) : \A xx \in 1..new_width :
            LET p == pixels[i][xx]
                t == ParseRGB(RasterToks(i)[2 * xx - 1])
            IN  /\ t.r = Min2(255, PyRound(p.r * brightness))
                /\ t.g = Min2(255, PyRound(p.g * brightness))
                /\ t.b = Min2(255, PyRound(p.b * brightness))

(* ------------------ claims on the effects, continued ------------------- *)
\* the row the loop finished last, 1-based
LastRow == Len(row_chars)

\* C22: in the glitch transform a colour directive whose token index is in no
\* glitch zone of its row is emitted unchanged, and a row none of whose
\* tokens is in a zone is emitted as it was read.
C22_GlitchOutsideZones ==
    (effect_type = 1 /\ row_chars # <<>>) =>
        /\ \A k \in Toks(LastRow) :
               (IsColor(row_chars[LastRow][k]) /\ ~in_glitch_zone[k]) =>
                   row_out[LastRow][k].tok = row_chars[LastRow][k]
        /\ (\A k \in Toks(LastRow) : ~in_glitch_zone[k]) =>
               /\ Len(new_lines) = LastRow
               /\ new_lines[LastRow] = lines[LastRow]

\* a row with a zone over its first tokens and, past the end of the zone, a
\* directive that parses and was emitted as read
C22_Witness ==
    /\ effect_type = 1 /\ row_chars # <<>>
    /\ \E j, k \in Toks(LastRow) :
         /\ in_glitch_zone[j]
         /\ ~in_glitch_zone[k]
         /\ Parses(row_chars[LastRow][k])
         /\ row_out[LastRow][k].tok = row_chars[LastRow][k]

(* ---------------------- claims on the glitch zones --------------------- *)
\* C23: every zone generated for a row of n tokens, rows shorter than 5
\* tokens included, is a range [start, end) with 0 <= start <= end <= n and
\* a length from 5 to 15, of one of the four kinds and with an intensity in
\* [0.5, 1.0]; a glitched row gets from 1 to 3 zones.
C23_ZonesWellFormed ==
    /\ \A z \in 1..Len(zone_list) :
         /\ 0 <= zone_list[z].start
         /\ zone_list[z].start <= zone_list[z].end
         /\ zone_list[z].end <= zone_len
         /\ zone_list[z].end - zone_list[z].start \in 5..15
         /\ zone_list[z].type \in GlitchTypes
         /\ zone_list[z].intensity >= SC \div 2
         /\ zone_list[z].intensity <= SC
    /\ (pc = "tokens" /\ zone_total > 0) => Len(zone_list) \in 1..3

\* C23 as amended: the length of a zone is from min(5, n) to 15, so a row
\* shorter than 5 tokens gets zones as long as the row; the rest as stated.
C23_ZonesClamped ==
    /\ \A z \in 1..Len(zone_list) :
         /\ 0 <= zone_list[z].start
         /\ zone_list[z].start <= zone_list[z].end
         /\ zone_list[z].end <= zone_len
         /\ zone_list[z].end - zone_list[z].start \in Min2(5, zone_len)..15
         /\ zone_list[z].type \in GlitchTypes
         /\ zone_list[z].intensity >= SC \div 2
         /\ zone_list[z].intensity <= SC
    /\ (pc = "tokens" /\ zone_total > 0) => Len(zone_list) \in 1..3

\* three zones were generated for a row of 3 tokens, each over the whole row
C23_Witness ==
    /\ pc = "tokens" /\ zone_len = 3 /\ Len(zone_list) = 3
    /\ \A z \in 1..3 : zone_list[z].start = 0 /\ zone_list[z].end = 3

\* C25: every cell the neon transform recolours has r + g + b >= 240,
\* whatever the input colour in 0..255 (black included), the row and the
\* draws.
C25_NeonFloor ==
    effect_type = 4 =>
        \A r \in Rows : \A k \in Toks(r) :
            (row_out[r][k].rew /\ InRange(ParseRGB(row_chars[r][k]))) =>
                OutRGB(r, k).r + OutRGB(r, k).g + OutRGB(r, k).b
                    >= 3 * MinNeonBrightness

(* ------------------- claims on the fire transform ---------------------- *)
\* the tier the claim gives row `row` of `total`: heat = 1 - row / total,
\* compared with 0.7 and 0.4 on exact fractions; 1 hot, 2 medium, 3 cool
ClaimedTier(row, total) ==
    IF 10 * (total - row) > 7 * total THEN 1
    ELSE IF 10 * (total - row) > 4 * total THEN 2
    ELSE 3

\* a heat inside each tier
TierHeat == <<SC, 550, 0>>

\* the colours the mapping of one tier can give a cell, over the flickers
TierColors(tier, c) ==
    LET t == FireTier(TierHeat[tier], Brightness(c))
    IN  {Pixel(Min2(255, ToInt(t.r * d.flicker)),
               Min2(255, ToInt(t.g * d.flicker)),
               Min2(255, ToInt(t.b * d.flicker))) : d \in FireDraws}

C28_FireOrdered ==
    effect_type = 3 =>
        \A r \in Rows : \A k \in Toks(r) :
            LET c == ParseRGB(row_chars[r][k])
            IN  (row_out[r][k].rew /\ c.r >= 0 /\ c.g >= 0 /\ c.b >= 0) =>
                    /\ OutRGB(r, k).r >= OutRGB(r, k).g
                    /\ OutRGB(r, k).g >= OutRGB(r, k).b

(* ------------------- claims on the independence of rows ---------------- *)
\* the text of row i of the grid of the first call
FirstLine(i) == JoinEmpty(row_chars[i])

C29_RowArguments ==
    [][ /\ pc' # "call" => Len(lines') >= 1
        /\ Len(row_chars') > Len(row_chars) =>
             /\ Len(lines) >= 1
             /\ 0 <= y /\ y < Len(lines)
             /\ FireHeat(y, Len(lines)) > 0
             /\ FireHeat(y, Len(lines)) <= SC
             /\ MatrixIntensity(y, Len(lines)) >= 300
             /\ MatrixIntensity(y, Len(lines)) <= SC ]_vars

\* the empty string went through the fire transform as one row, and a
\* string of two line feeds through the matrix transform as three
C29_Witness ==
    /\ Done
    /\ \/ ansi_art = <<>> /\ effect_type = 3 /\ Len(row_chars) = 1
       \/ ansi_art = <<NL, NL>> /\ effect_type = 2 /\ Len(row_chars) = 3


\* the validator calls of the request at hand, whatever the handler does
ParameterOutcomes ==
    << validate_brightness(Arg(request.brightness, <<"1", ".", "0">>)),
       validate_resolution(Arg(request.resolution, <<"8", "0">>)),
       validate_effect_type(Arg(request.effect, <<"-", "1">>)) >>

ParameterInvalid == \E k \in 1..3 : ParameterOutcomes[k].kind = "raise"

ValidationMessages ==
    { "Brightness must be between 0.1 and 5.0", "Brightness must be a valid number",
      "Resolution must be between 10 and 1000", "Resolution must be a valid integer",
      "Effect type must be between -1 and 4", "Effect type must be a valid integer" }

\* C27: in /convert and /update_ansi a brightness, resolution or effect that
\* fails validation is answered with status 400, and with the message of the
\* validator when the request got past the test of its name; none of
\* image_to_ansi, generate_simple_effect and create_html has been invoked
\* and nothing is written under converted/; /convert answers 400 also when
\* the image is not on disk.
C27_ValidationFirst ==
    (request.route \in {"convert", "update_ansi"} /\ ParameterInvalid) =>
        /\ invoked = <<>>
        /\ converted = {}
        /\ pc \in {"route", "args", "responded"}
        /\ pc = "responded" =>
               /\ reply.status = 400
               /\ reply.body = <<>>
               /\ (request.name # <<>> /\ ~UnsafeName(request.name)) =>
                      reply.text \in ValidationMessages

C27_Witness ==
    /\ pc = "responded"
    /\ request.route = "convert"
    /\ ~UnsafeName(request.name)
    /\ ~request.on_disk
    /\ request.effect = <<"5">>
    /\ request.brightness = <<"1", ".", "0">>
    /\ reply.status = 400
    /\ reply.text = "Effect type must be between -1 and 4"
    /\ invoked = <<>>

EngineInvoked == \E k \in 1..Len(invoked) : invoked[k] = "generate_simple_effect"

\* C30: through the two handlers generate_simple_effect is invoked exactly
\* when the validated effect is >= 0; the selector it gets is in 0..4, so
\* each row goes through one of the five transforms and never through the
\* else branch; with effect -1 the grid that is answered is the one
\* image_to_ansi returned.
C30_EngineWhenSelected ==
    /\ EngineInvoked =>
           /\ validated.effect \in 0..4
           /\ effect_type = validated.effect
           /\ Branch(effect_type) \in {"rainbow", "glitch", "matrix", "fire", "neon"}
    /\ ~AtRow("else")
    /\ (pc \in {"call", "loop", "done"}) => EngineInvoked
    /\ (pc = "finish" \/ reply.status = 200) =>
           /\ EngineInvoked <=> validated.effect >= 0
           /\ invoked[1] = "image_to_ansi"
    /\ (reply.status = 200 /\ validated.effect = -1) =>
           /\ reply.body = JoinNL(raster)
           /\ request.route = "convert" => converted = {create_html(JoinNL(raster), request.name \o <<".", "h", "t", "m", "l">>)}

C30_Witness ==
    /\ reply.status = 200
    /\ request.route = "update_ansi"
    /\ validated.effect = 0
    /\ EngineInvoked
    /\ reply.body # JoinNL(raster)
    /\ reply.body = result

=============================================================================
